---- MODULE Spec2Model ----
(***************************************************************************)
(* A model of the Milvus plugin's connection-and-search facade:            *)
(*   lib/milvus_client.py   MilvusClientWrapper (the facade)               *)
(*   provider/milvus.py     MilvusProvider (credential validation)         *)
(*   tools/milvus_base.py   MilvusBaseTool (context manager, validators)   *)
(*   tools/milvus_*.py      the tools built on them                        *)
(*                                                                         *)
(* Python strings are sequences of one-character strings, so that          *)
(* startswith, "in", urlparse and the collection-name pattern are computed *)
(* character by character.  A dict is a function; an absent key is a key   *)
(* outside its DOMAIN.                                                     *)
(***************************************************************************)
EXTENDS Integers, Sequences, FiniteSets, TLC

(***************************************************************************)
(* Bounds of the model.                                                    *)
(***************************************************************************)
\* longest URI, in pieces of UriPieces, that the pure-function checks draw
MaxPieces == 3
MaxNameChars == 3
MaxPhrases == 3
MaxDepth == 3

(***************************************************************************)
(* Strings.                                                                *)
(***************************************************************************)
Letters == {"h", "t", "p", "s", "c", "u", "n", "i", "x", "f", "m", "M", "d", "r", "o", "l", "e"}
Digits == {"0", "1", "2", "3", "4", "5", "6", "7", "8", "9"}

\* str.startswith
StartsWith(s, p) == Len(s) >= Len(p) /\ SubSeq(s, 1, Len(p)) = p

\* c in s, for a one-character c
HasChar(s, c) == \E i \in 1..Len(s) : s[i] = c

\* s.find(c, from) on 1-based positions; 0 when c does not occur
FindFrom(s, c, from) ==
    IF \E i \in from..Len(s) : s[i] = c
    THEN CHOOSE i \in from..Len(s) : s[i] = c /\ \A j \in from..(i - 1) : s[j] # c
    ELSE 0

\* str.lower on the model's alphabet
LowerChar(c) == IF c = "M" THEN "m" ELSE c
Lower(s) == [i \in 1..Len(s) |-> LowerChar(s[i])]

\* str.isdigit (the empty string is not a digit string)
IsDigits(s) == Len(s) > 0 /\ \A i \in 1..Len(s) : s[i] \in Digits

DigitChars == <<"0", "1", "2", "3", "4", "5", "6", "7", "8", "9">>

DigitVal(c) == (CHOOSE i \in 1..10 : DigitChars[i] = c) - 1

RECURSIVE ToInt(_)
\* int(s) for a digit string
ToInt(s) == IF s = <<>> THEN 0 ELSE 10 * ToInt(SubSeq(s, 1, Len(s) - 1)) + DigitVal(s[Len(s)])

RECURSIVE IntToStr(_)
\* str(n) for n >= 0
IntToStr(n) ==
    IF n < 10 THEN <<DigitChars[n + 1]>>
    ELSE IntToStr(n \div 10) \o <<DigitChars[(n % 10) + 1]>>

RECURSIVE Flatten(_)
\* the concatenation of a sequence of strings
Flatten(ss) == IF ss = <<>> THEN <<>> ELSE Head(ss) \o Flatten(Tail(ss))

(***************************************************************************)
(* URIs.                                                                   *)
(***************************************************************************)
HTTPS == <<"h", "t", "t", "p", "s", ":", "/", "/">>
HTTP == <<"h", "t", "t", "p", ":", "/", "/">>
TCP == <<"t", "c", "p", ":", "/", "/">>
UNIX == <<"u", "n", "i", "x", ":", "/", "/">>
FTP == <<"f", "t", "p", ":", "/", "/">>
PORT443 == <<":", "4", "4", "3">>

\* provider/milvus.py:124-135, the schemes PyMilvus accepts
AcceptedScheme(uri) ==
    \/ StartsWith(uri, HTTPS)
    \/ StartsWith(uri, HTTP)
    \/ StartsWith(uri, TCP)
    \/ StartsWith(uri, UNIX)

NormalizeUriAlways(uri) ==
    IF HasChar(uri, ":") THEN HTTPS \o uri ELSE HTTPS \o uri \o PORT443

\* provider/milvus.py:123-144, the scheme coercion of _validate_milvus_connection
NormalizeUri(uri) ==
    IF AcceptedScheme(uri) THEN uri
    ELSE IF HasChar(uri, ":") THEN HTTPS \o uri
    ELSE HTTPS \o uri \o PORT443

(***************************************************************************)
(* urllib.parse.urlparse, as the connection code uses it: the scheme, the  *)
(* hostname and the port of a URI (lib/milvus_client.py:66-68,             *)
(* provider/milvus.py:175-177).                                            *)
(***************************************************************************)
SchemeChars == Letters \cup Digits

\* position of the ':' that ends a scheme, 0 when the URI has no scheme
SchemeEnd(url) ==
    LET i == FindFrom(url, ":", 1)
    IN  IF i > 1 /\ url[1] \in Letters /\ \A j \in 1..(i - 1) : url[j] \in SchemeChars
        THEN i ELSE 0

UrlScheme(url) == Lower(SubSeq(url, 1, SchemeEnd(url) - 1))

UrlRest(url) == SubSeq(url, SchemeEnd(url) + 1, Len(url))

\* the authority part: what follows "//" up to the next "/"
UrlNetloc(url) ==
    LET rest == UrlRest(url)
        delim == FindFrom(rest, "/", 3)
    IN  IF StartsWith(rest, <<"/", "/">>)
        THEN SubSeq(rest, 3, IF delim = 0 THEN Len(rest) ELSE delim - 1)
        ELSE <<>>

\* ParseResult.hostname; the empty string stands for None
UrlHostname(url) ==
    LET netloc == UrlNetloc(url)
        k == FindFrom(netloc, ":", 1)
    IN  Lower(IF k = 0 THEN netloc ELSE SubSeq(netloc, 1, k - 1))

\* the text after the first ':' of the authority; empty when there is none
UrlPortText(url) ==
    LET netloc == UrlNetloc(url)
        k == FindFrom(netloc, ":", 1)
    IN  IF k = 0 THEN <<>> ELSE SubSeq(netloc, k + 1, Len(netloc))

\* ParseResult.port raises ValueError for a port that is no number in 0..65535
UrlPortRaises(url) ==
    LET t == UrlPortText(url)
    IN  t # <<>> /\ (~IsDigits(t) \/ ToInt(t) > 65535)

\* ParseResult.port; 0 stands for None as well (both are falsy where it is used)
UrlPort(url) == IF UrlPortText(url) = <<>> THEN 0 ELSE ToInt(UrlPortText(url))

HttpsDefaultPort == 443
HttpDefaultPort == 80

\* lib/milvus_client.py:68: parsed_uri.port or (443 if scheme == 'https' else 80)
ProbePort(url) ==
    IF UrlPort(url) # 0 THEN UrlPort(url)
    ELSE IF UrlScheme(url) = <<"h", "t", "t", "p", "s">> THEN HttpsDefaultPort
    ELSE HttpDefaultPort

\* every URI of at most n pieces
UriPieces == {HTTPS, HTTP, TCP, UNIX, FTP, <<"m">>, <<"M">>, <<":">>, <<"1">>, <<"/">>}

RECURSIVE PieceSeqs(_)
PieceSeqs(n) ==
    IF n = 0 THEN {<<>>}
    ELSE LET shorter == PieceSeqs(n - 1)
         IN  shorter \cup {Append(ps, p) : ps \in {q \in shorter : Len(q) = n - 1}, p \in UriPieces}

AllUris == {Flatten(ps) : ps \in PieceSeqs(MaxPieces)}

(***************************************************************************)
(* Credentials: the dict the plugin runtime hands to every tool and to the *)
(* provider.  Keys: uri, user, password (database defaults to "default"    *)
(* and takes part in no decision).                                         *)
(***************************************************************************)
CredUris == {
    <<>>,
    <<"m">>,
    <<"m", ":", "1">>,
    HTTPS \o <<"m">>,
    HTTP \o <<"m", ":", "1">>,
    TCP \o <<"M", ":", "1">>,
    FTP \o <<"m">>,
    HTTPS \o <<":", "1">>,
    HTTP \o <<"m", ":", "m">> }

CredNames == {<<>>, <<"r">>}

NotGivenAbsentOnly(d, k) == k \notin DOMAIN d

\* dict.get(key) of a key the dict may lack: "not d.get(k)" holds for an
\* absent key and for the empty string alike
NotGiven(d, k) == k \notin DOMAIN d \/ d[k] = <<>>

\* d.get(k, default)
Get(d, k, default) == IF k \in DOMAIN d THEN d[k] ELSE default

\* a dict with the keys ks, and on them the values of full
Restrict(full, ks) == [k \in ks |-> full[k]]

AllCredentials ==
    {Restrict([uri |-> u, user |-> n, password |-> w], ks) :
        u \in CredUris, n \in CredNames, w \in CredNames,
        ks \in SUBSET {"uri", "user", "password"}}

(***************************************************************************)
(* Exceptions and their messages.  str(e) is a sequence of text pieces; a  *)
(* formatted message is the concatenation of its parts.                    *)
(***************************************************************************)
Exc(type, msg) == [type |-> type, msg |-> msg]

NoExc == Exc("", <<>>)

\* "x in str(e)": the message holds the piece x
Mentions(msg, x) == \E i \in 1..Len(msg) : msg[i] = x

\* str(None) where a hostname is formatted
HostText(hostname) == IF hostname = <<>> THEN <<"None">> ELSE hostname

\* what the network and the engine may answer
DnsErrors == {<<"[Errno -2] Name or service not known">>, <<"timed out">>}
ResolvedIp == <<"10.0.0.1">>
ConnectCodes == {0, 111}
ConnectRaises == {Exc("OverflowError", <<"bind(): port must be 0-65535.">>)}
HandshakeErrors == {
    Exc("MilvusException", <<"Fail connecting to server, connection refused">>),
    Exc("MilvusException", <<"authentication failed">>),
    Exc("MilvusException", <<"connection rejected: authentication required">>),
    Exc("TimeoutError", <<"timed out">>) }

(***************************************************************************)
(* State.                                                                  *)
(***************************************************************************)
VARIABLES
    credentials,     \* the runtime's credentials dict
    collections,     \* the engine: names of the collections that exist
    client,          \* MilvusClientWrapper._client of the wrapper in use
    pc,              \* where the current call stands
    call,            \* the current call: who was called, with which arguments
    events,          \* what the current call did to the outside, in order
    outcome,         \* how the current call ended
    responses,       \* the messages a tool invocation has yielded
    alarm,           \* a SIGALRM timer is armed
    sockOpen,        \* probe sockets opened and not closed
    defaultTimeout,  \* socket.getdefaulttimeout()
    pymilvus         \* provider/milvus.py:51-68: the import of MilvusClient succeeded

vars == <<credentials, collections, client, pc, call, events, outcome, responses,
          alarm, sockOpen, defaultTimeout, pymilvus>>

\* one external effect
Ev(op, arg) == [op |-> op, arg |-> arg]

\* client.has_collection(name) and how it ended: "True", "False" or "raised"
HasCollEv(name, result) == Ev("has_collection", [collection_name |-> name, result |-> result])

BoolText(b) == IF b THEN "True" ELSE "False"

Log(op, arg) == Append(events, Ev(op, arg))

HandshakeSeconds == 8
PreflightSeconds == 3
NoTimeout == 0

Idle == pc = "idle"

\* the call ends by raising e to its caller
Raised(e) == [kind |-> "raised", exc |-> e, value |-> <<>>]
ReturnedValue(v) == [kind |-> "returned", exc |-> NoExc, value |-> v]
Returned == ReturnedValue(<<>>)
Pending == [kind |-> "pending", exc |-> NoExc, value |-> <<>>]

(***************************************************************************)
(* How a call ends.                                                        *)
(***************************************************************************)
\* tools/milvus_delete.py:83-95 (the same in every tool): one failure message
\* carrying str(error) and the error's type name
FailureResponse(e) ==
    [success |-> FALSE, error |-> e.msg, error_type |-> e.type, payload |-> <<>>]

\* create_json_message of a success response
SuccessResponse(payload) ==
    [success |-> TRUE, error |-> <<>>, error_type |-> "", payload |-> payload]

CtxReraises(e) == e

\* tools/milvus_base.py:53-55: whatever is raised inside the context manager,
\* before or after the yield, leaves it as a ValueError
CtxWrap(e) == Exc("ValueError", <<"Failed to connect to Milvus: ">> \o e.msg)

ToolFailsSilently(e) ==
    /\ responses' = responses
    /\ outcome' = Returned
    /\ pc' = "done"

\* a tool's "except Exception as e: yield from self._handle_error(e)"
ToolFails(e) ==
    /\ responses' = Append(responses, FailureResponse(e))
    /\ outcome' = Returned
    /\ pc' = "done"

\* an exception leaves MilvusClientWrapper: a tool meets it inside its with
\* block, a direct caller of the facade gets it as it is
FacadeRaises(e) ==
    IF call.kind = "tool"
    THEN ToolFails(CtxWrap(e))
    ELSE /\ outcome' = Raised(e)
         /\ pc' = "done"
         /\ UNCHANGED responses

(***************************************************************************)
(* MilvusClientWrapper._create_client (lib/milvus_client.py:41-134),       *)
(* reached through the client property when _client is None.               *)
(***************************************************************************)
SetDefaultTimeoutIgnored(seconds) == defaultTimeout' = defaultTimeout

\* socket.setdefaulttimeout (lines 75 and 99): the process-wide default
SetDefaultTimeout(seconds) == defaultTimeout' = seconds

\* lines 85-88: socket.socket(...), then sock.connect_ex((ip, port)) and how it
\* ended: its result code, or "raised"
Probe(port, result) ==
    <<Ev("socket", <<>>),
      Ev("connect_ex", [ip |-> ResolvedIp, port |-> IntToStr(port), result |-> result])>>

ProbeAlwaysPassed(result) == TRUE

\* line 89: "if result == 0"
ProbePassed(result) == result = 0

PortErrorText(uri) ==
    IF IsDigits(UrlPortText(uri))
    THEN <<"Port out of range 0-65535">>
    ELSE <<"Port could not be cast to integer value as ">> \o UrlPortText(uri)

\* lines 50-68: the credential checks, then urlparse
CreateClient_Check ==
    /\ pc = "create_client"
    /\ IF NotGiven(credentials, "uri")
       THEN FacadeRaises(Exc("ValueError", <<"URI is required">>))
       ELSE IF NotGiven(credentials, "user")
       THEN FacadeRaises(Exc("ValueError", <<"Username is required">>))
       ELSE IF NotGiven(credentials, "password")
       THEN FacadeRaises(Exc("ValueError", <<"Password is required">>))
       ELSE IF UrlPortRaises(credentials.uri)
       THEN FacadeRaises(Exc("ValueError", PortErrorText(credentials.uri)))
       ELSE pc' = "dns" /\ UNCHANGED <<outcome, responses>>
    /\ events' = Log("_create_client", <<>>)
    /\ UNCHANGED <<credentials, collections, client, call, alarm, sockOpen,
                   defaultTimeout, pymilvus>>

DnsFailureText(hostname, why) ==
    <<"Cannot resolve hostname ">> \o HostText(hostname) \o <<": ">> \o why

\* lines 73-80: DNS resolution under a 3 second default timeout
CreateClient_Dns ==
    /\ pc = "dns"
    /\ SetDefaultTimeout(PreflightSeconds)
    /\ events' = Log("gethostbyname", UrlHostname(credentials.uri))
    /\ \E ok \in BOOLEAN, why \in DnsErrors :
         IF ok /\ UrlHostname(credentials.uri) # <<>>
         THEN pc' = "tcp" /\ UNCHANGED <<outcome, responses>>
         ELSE FacadeRaises(Exc("RuntimeError",
                 DnsFailureText(UrlHostname(credentials.uri),
                     IF UrlHostname(credentials.uri) = <<>>
                     THEN <<"gethostbyname() argument 1 must be str, bytes or bytearray, not None">>
                     ELSE why)))
    /\ UNCHANGED <<credentials, collections, client, call, alarm, sockOpen, pymilvus>>

TcpFailureText(hostname, port, why) ==
    <<"Cannot connect to ">> \o hostname \o <<":">> \o IntToStr(port) \o <<": ">> \o why

TcpRefusedText(port) == <<"Cannot connect to ">> \o ResolvedIp \o <<":">> \o IntToStr(port)

\* lines 83-112: the TCP probe; when it passes, the default timeout is reset,
\* the SIGALRM handler installed, the alarm armed and MilvusClient(...) called
CreateClient_Tcp ==
    /\ pc = "tcp"
    /\ LET host == UrlHostname(credentials.uri)
           port == ProbePort(credentials.uri)
       IN  \E code \in ConnectCodes, raises \in BOOLEAN, e \in ConnectRaises :
             IF raises
             THEN /\ sockOpen' = TRUE
                  /\ events' = events \o Probe(port, "raised")
                  /\ FacadeRaises(Exc("RuntimeError", TcpFailureText(host, port, e.msg)))
                  /\ UNCHANGED <<alarm, defaultTimeout>>
             ELSE IF ~ProbePassed(code)
             THEN /\ events' = events \o Probe(port, IntToStr(code))
                                      \o <<Ev("close", <<>>)>>
                  /\ FacadeRaises(Exc("RuntimeError",
                         TcpFailureText(host, port, TcpRefusedText(port))))
                  /\ UNCHANGED <<alarm, sockOpen, defaultTimeout>>
             ELSE /\ events' = events \o Probe(port, IntToStr(code))
                                      \o <<Ev("close", <<>>), Ev("alarm", <<"8">>),
                                          Ev("MilvusClient", credentials.uri)>>
                  /\ SetDefaultTimeout(NoTimeout)
                  /\ alarm' = TRUE
                  /\ pc' = "handshake"
                  /\ UNCHANGED <<sockOpen, outcome, responses>>
    /\ UNCHANGED <<credentials, collections, client, call, pymilvus>>

WrapperTimeout == Exc("TimeoutError", <<"MilvusClient creation timed out in wrapper">>)
HandshakeTimeout == Exc("TimeoutError", <<"MilvusClient creation timed out after 8 seconds">>)

\* lines 115-120: MilvusClient(...) returns, or raises an error of its own
CreateClient_Handshake ==
    /\ pc = "handshake"
    /\ \E ok \in BOOLEAN, e \in HandshakeErrors :
         IF ok
         THEN pc' = "hs_returned" /\ outcome' = Pending
         ELSE IF e.type = "TimeoutError"
         THEN pc' = "hs_timeout" /\ outcome' = Raised(e)
         ELSE pc' = "hs_raised" /\ outcome' = Raised(e)
    /\ UNCHANGED <<credentials, collections, client, call, events, responses, alarm,
                   sockOpen, defaultTimeout, pymilvus>>

\* lines 123-125: signal.alarm(0); return client
CancelAlarmDropped == alarm' = alarm

CancelAlarm == alarm' = FALSE

CreateClient_Return ==
    /\ pc = "hs_returned"
    /\ CancelAlarm
    /\ events' = Log("alarm", <<"0">>)
    /\ client' = "connected"
    /\ pc' = "op"
    /\ UNCHANGED <<credentials, collections, call, outcome, responses, sockOpen,
                   defaultTimeout, pymilvus>>

\* lines 127-130: except TimeoutError: signal.alarm(0); raise TimeoutError(...)
CreateClient_Timeout ==
    /\ pc = "hs_timeout"
    /\ CancelAlarm
    /\ events' = Log("alarm", <<"0">>)
    /\ FacadeRaises(HandshakeTimeout)
    /\ UNCHANGED <<credentials, collections, client, call, sockOpen, defaultTimeout, pymilvus>>

\* lines 131-134: except Exception as e: signal.alarm(0); raise e
CreateClient_Raise ==
    /\ pc = "hs_raised"
    /\ CancelAlarm
    /\ events' = Log("alarm", <<"0">>)
    /\ FacadeRaises(outcome.exc)
    /\ UNCHANGED <<credentials, collections, client, call, sockOpen, defaultTimeout, pymilvus>>

(***************************************************************************)
(* MilvusProvider._validate_credentials / _validate_milvus_connection      *)
(* (provider/milvus.py:78-263).                                            *)
(***************************************************************************)
\* which of the words the error handlers look for occur in a piece of text,
\* lower-cased ("kw in error_msg.lower()")
PieceKeywords(x) ==
    CASE x = "Fail connecting to server, connection refused" -> {"connection"}
      [] x = "authentication failed" -> {"authentication"}
      [] x = "connection rejected: authentication required" -> {"connection", "authentication"}
      [] x = "' does not exist" -> {"does not exist"}
      [] OTHER -> {}

Contains(msg, kw) == \E i \in 1..Len(msg) : kw \in PieceKeywords(msg[i])

CredError(msg) == Exc("ToolProviderCredentialValidationError", msg)

ProviderErrorConnectionFirst(e) ==
    IF Contains(e.msg, "connection") \/ Contains(e.msg, "timeout")
    THEN CredError(<<"Cannot connect to Milvus server. Please check URI and network connectivity.">>)
    ELSE IF Contains(e.msg, "authentication") \/ Contains(e.msg, "unauthorized")
    THEN CredError(<<"Authentication failed. Please check username and password.">>)
    ELSE CredError(<<"Milvus connection failed: ">> \o e.msg)

\* lines 248-261: the message a failed connection test is reported with
ProviderError(e) ==
    IF Contains(e.msg, "authentication") \/ Contains(e.msg, "unauthorized")
    THEN CredError(<<"Authentication failed. Please check username and password.">>)
    ELSE IF Contains(e.msg, "connection") \/ Contains(e.msg, "timeout")
    THEN CredError(<<"Cannot connect to Milvus server. Please check URI and network connectivity.">>)
    ELSE CredError(<<"Milvus connection failed: ">> \o e.msg)

ProviderRaises(e) ==
    /\ outcome' = Raised(e)
    /\ pc' = "done"

\* the exception a handler raises while it handles the exception it caught:
\* Python keeps the caught one as the new one's __context__
RaisedFrom(e, caught) == [kind |-> "raised", exc |-> e, value |-> caught]

\* lines 248-261: "except Exception as e" reports e under the message chosen
\* for its text
ProviderReports(e) ==
    /\ outcome' = RaisedFrom(ProviderError(e), e)
    /\ pc' = "done"

NewCall(kind, op, args) == [kind |-> kind, op |-> op, args |-> args]

\* lines 92-177: availability of the library, required fields, scheme
\* coercion, urlparse
Provider_Validate ==
    /\ Idle
    /\ call' = NewCall("provider", "_validate_credentials",
                       [uri |-> IF NotGiven(credentials, "uri") THEN <<>>
                                ELSE NormalizeUri(credentials.uri)])
    /\ events' = <<>>
    /\ responses' = <<>>
    /\ sockOpen' = FALSE
    /\ IF ~pymilvus
       THEN ProviderRaises(CredError(<<"PyMilvus library is not available">>))
       ELSE IF NotGiven(credentials, "uri")
       THEN ProviderRaises(CredError(<<"Milvus URI is required">>))
       ELSE IF NotGiven(credentials, "user")
       THEN ProviderRaises(CredError(<<"Username is required">>))
       ELSE IF NotGiven(credentials, "password")
       THEN ProviderRaises(CredError(<<"Password is required">>))
       ELSE IF UrlPortRaises(NormalizeUri(credentials.uri))
       THEN ProviderReports(
                Exc("ValueError", PortErrorText(NormalizeUri(credentials.uri))))
       ELSE pc' = "pv_dns" /\ outcome' = Pending
    /\ UNCHANGED <<credentials, collections, client, alarm, defaultTimeout, pymilvus>>

\* lines 181-189
Provider_Dns ==
    /\ pc = "pv_dns"
    /\ SetDefaultTimeout(PreflightSeconds)
    /\ events' = Log("gethostbyname", UrlHostname(call.args.uri))
    /\ \E ok \in BOOLEAN, why \in DnsErrors :
         IF ok /\ UrlHostname(call.args.uri) # <<>>
         THEN pc' = "pv_tcp" /\ UNCHANGED outcome
         ELSE ProviderReports(CredError(
                 DnsFailureText(UrlHostname(call.args.uri),
                     IF UrlHostname(call.args.uri) = <<>>
                     THEN <<"gethostbyname() argument 1 must be str, bytes or bytearray, not None">>
                     ELSE why)))
    /\ UNCHANGED <<credentials, collections, client, call, responses, alarm, sockOpen,
                   pymilvus>>

\* lines 191-227: the TCP probe; when it passes, the default timeout is reset,
\* the alarm armed and test_milvus_connection called
Provider_Tcp ==
    /\ pc = "pv_tcp"
    /\ LET host == UrlHostname(call.args.uri)
           port == ProbePort(call.args.uri)
       IN  \E code \in ConnectCodes, raises \in BOOLEAN, e \in ConnectRaises :
             IF raises
             THEN /\ sockOpen' = TRUE
                  /\ events' = events \o Probe(port, "raised")
                  /\ ProviderReports(CredError(
                         TcpFailureText(host, port, e.msg)))
                  /\ UNCHANGED <<alarm, defaultTimeout>>
             ELSE IF ~ProbePassed(code)
             THEN /\ events' = events \o Probe(port, IntToStr(code))
                                      \o <<Ev("close", <<>>)>>
                  /\ ProviderReports(CredError(
                         TcpFailureText(host, port, TcpRefusedText(port))))
                  /\ UNCHANGED <<alarm, sockOpen, defaultTimeout>>
             ELSE /\ events' = events \o Probe(port, IntToStr(code))
                                      \o <<Ev("close", <<>>), Ev("alarm", <<"8">>),
                                          Ev("MilvusClient", call.args.uri)>>
                  /\ SetDefaultTimeout(NoTimeout)
                  /\ alarm' = TRUE
                  /\ pc' = "pv_handshake"
                  /\ UNCHANGED <<sockOpen, outcome>>
    /\ UNCHANGED <<credentials, collections, client, call, responses, pymilvus>>

\* lines 33-47, test_milvus_connection: the client is built and asked for its
\* collections inside "try ... except Exception as e: return ('error', str(e))"
Provider_Handshake ==
    /\ pc = "pv_handshake"
    /\ \E ok \in BOOLEAN, e \in HandshakeErrors :
         IF ok
         THEN outcome' = Pending /\ events' = Log("list_collections", <<>>)
         ELSE outcome' = Raised(Exc("RuntimeError", e.msg)) /\ UNCHANGED events
    /\ pc' = "pv_returned"
    /\ UNCHANGED <<credentials, collections, client, call, responses, alarm, sockOpen,
                   defaultTimeout, pymilvus>>

\* lines 229-236 and 242-261: signal.alarm(0); success, or RuntimeError(result_value)
\* re-raised through "except Exception" and reported by the outer handler
Provider_Return ==
    /\ pc = "pv_returned"
    /\ CancelAlarm
    /\ events' = Log("alarm", <<"0">>)
    /\ IF outcome.kind = "raised"
       THEN ProviderReports(outcome.exc)
       ELSE outcome' = Returned /\ pc' = "done"
    /\ UNCHANGED <<credentials, collections, client, call, responses, sockOpen,
                   defaultTimeout, pymilvus>>

\* lines 238-241, then 248-261: except TimeoutError
Provider_Timeout ==
    /\ pc = "pv_timeout"
    /\ CancelAlarm
    /\ events' = Log("alarm", <<"0">>)
    /\ ProviderReports(HandshakeTimeout)
    /\ UNCHANGED <<credentials, collections, client, call, responses, sockOpen,
                   defaultTimeout, pymilvus>>

ProviderWatchdog == Exc("TimeoutError", <<"MilvusClient creation timed out">>)

(***************************************************************************)
(* SIGALRM is delivered: the installed timeout_handler raises TimeoutError *)
(* at whatever point the main thread has reached                           *)
(* (lib/milvus_client.py:104-106, provider/milvus.py:215-217).             *)
(***************************************************************************)
AlarmFires ==
    /\ alarm
    /\ alarm' = FALSE
    /\ events' = Log("SIGALRM", <<pc>>)
    /\ CASE pc \in {"handshake", "hs_returned"} ->
              \* inside the try of _create_client: caught by except TimeoutError
              pc' = "hs_timeout" /\ outcome' = Raised(WrapperTimeout) /\ UNCHANGED responses
         [] pc \in {"hs_raised", "hs_timeout"} ->
              \* inside an except clause: the new exception leaves _create_client
              FacadeRaises(WrapperTimeout)
         [] pc = "pv_handshake" ->
              \* inside test_milvus_connection: swallowed into ('error', str(e))
              /\ pc' = "pv_returned"
              /\ outcome' = Raised(Exc("RuntimeError", ProviderWatchdog.msg))
              /\ UNCHANGED responses
         [] pc = "pv_returned" ->
              \* after test_milvus_connection returned: caught by except TimeoutError
              pc' = "pv_timeout" /\ outcome' = Raised(ProviderWatchdog) /\ UNCHANGED responses
         [] pc = "pv_timeout" ->
              ProviderReports(ProviderWatchdog) /\ UNCHANGED responses
         [] OTHER ->
              \* no handshake is under way: the timeout hits unrelated work
              /\ outcome' = Raised(IF call.kind = "provider" THEN ProviderWatchdog
                                   ELSE WrapperTimeout)
              /\ pc' = "done"
              /\ UNCHANGED responses
    /\ UNCHANGED <<credentials, collections, client, call, sockOpen, defaultTimeout,
                   pymilvus>>

(***************************************************************************)
(* The engine, as far as the facade can tell: which collections exist,     *)
(* what a search returns, and that any call may fail.                      *)
(***************************************************************************)
C1Name == <<"c", "1">>
BadName == <<"c", "-", "1">>
CollNames == {C1Name}

EngineDown == Exc("MilvusException", <<"Fail connecting to server, connection refused">>)

CollectionNotFound(name) ==
    Exc("MilvusException", <<"collection not found[collection=">> \o name \o <<"]">>)

\* a hit as the engine returns it; scores and distances in hundredths
Hit(id, distance) == [id |-> id, distance |-> distance]

HitLists == {<<>>, <<Hit(1, 95), Hit(2, 50)>>, <<Hit(2, 50), Hit(1, 95)>>,
             <<Hit(1, 95), Hit(2, 50), Hit(3, 90)>>}

Filters == {<<>>, <<"id==1">>}

(***************************************************************************)
(* SchemaBuilder: MilvusClientWrapper.create_collection_with_schema        *)
(* (lib/milvus_client.py:144-194).                                         *)
(***************************************************************************)
Field(name, dtype, primary, autoId, maxLength, analyzer, dim) ==
    [name |-> name, dtype |-> dtype, is_primary |-> primary, auto_id |-> autoId,
     max_length |-> maxLength, enable_analyzer |-> analyzer, dim |-> dim]

SparseName == <<"sparse_vector">>

\* "if text_field:" - a text field that is given and is not the empty dict
HasTextField(config) == "text_field" \in DOMAIN config /\ DOMAIN config.text_field # {}

Bm25Enabled(config) == Get(config, "enable_bm25", FALSE)

IdField == Field(<<"id">>, "INT64", TRUE, TRUE, 0, FALSE, 0)

TextFieldOf(config) ==
    Field(config.text_field.name, "VARCHAR", FALSE, FALSE, config.text_field.max_length,
          TRUE, 0)

VectorFieldOf(config) ==
    Field(config.vector_field.name, "FLOAT_VECTOR", FALSE, FALSE, 0, FALSE,
          config.vector_field.dim)

SparseField == Field(SparseName, "SPARSE_FLOAT_VECTOR", FALSE, FALSE, 0, FALSE, 0)

SchemaFieldsVectorFirst(config) ==
    <<IdField>>
    \o <<VectorFieldOf(config)>>
    \o (IF HasTextField(config) THEN <<TextFieldOf(config)>> ELSE <<>>)
    \o (IF Bm25Enabled(config) THEN <<SparseField>> ELSE <<>>)

\* lines 152-170: the add_field calls, in order
SchemaFields(config) ==
    <<IdField>>
    \o (IF HasTextField(config) THEN <<TextFieldOf(config)>> ELSE <<>>)
    \o <<VectorFieldOf(config)>>
    \o (IF Bm25Enabled(config) THEN <<SparseField>> ELSE <<>>)

\* lines 169-180: the add_function calls
SchemaFunctions(config) ==
    IF Bm25Enabled(config) /\ HasTextField(config)
    THEN <<[name |-> <<"text_bm25_emb">>, function_type |-> "BM25",
            input_field_names |-> <<config.text_field.name>>,
            output_field_names |-> <<SparseName>>]>>
    ELSE <<>>

Index(field, type, metric) == [field_name |-> field, index_type |-> type, metric_type |-> metric]

\* lines 183-187: the add_index calls
SchemaIndexes(config) ==
    <<Index(config.vector_field.name, "AUTOINDEX", "COSINE")>>
    \o (IF Bm25Enabled(config)
        THEN <<Index(SparseName, "SPARSE_INVERTED_INDEX", "BM25")>> ELSE <<>>)

\* lines 190-194: the arguments of client.create_collection
CreateCollectionArgs(config) ==
    [collection_name |-> config.collection_name,
     fields |-> SchemaFields(config),
     functions |-> SchemaFunctions(config),
     index_params |-> SchemaIndexes(config)]

TextFields == {[name |-> <<"text">>, max_length |-> 65535],
               [name |-> <<"doc">>, max_length |-> 5000]}
VectorFields == {[name |-> <<"vector">>, dim |-> 128], [name |-> <<"emb">>, dim |-> 1536]}

\* the schema configurations a caller of the facade may pass
SchemaConfigs ==
    {Restrict([collection_name |-> C1Name, enable_bm25 |-> b, vector_field |-> v,
               text_field |-> t], ks) :
        b \in BOOLEAN, v \in VectorFields, t \in TextFields \cup {<<>>},
        ks \in {{"collection_name", "enable_bm25", "vector_field", "text_field"},
                {"collection_name", "enable_bm25", "vector_field"},
                {"collection_name", "vector_field", "text_field"},
                {"collection_name", "vector_field"},
                {"collection_name", "enable_bm25"}}}

(***************************************************************************)
(* The facade called directly (lib/milvus_client.py:136-272): every        *)
(* operation reads the client property first, which connects when _client  *)
(* is None, and then makes one engine call.                                *)
(***************************************************************************)
SearchOps == {"vector_search", "search", "bm25_search", "hybrid_search"}

NameArgs == {[collection_name |-> n] : n \in CollNames}

\* delete(collection_name, filter) has two required parameters; <<>> is the
\* empty (or None) filter
DeleteArgs == {[collection_name |-> n, filter |-> f] : n \in CollNames, f \in Filters}

FacadeArgs(op) ==
    CASE op = "create_collection_with_schema" -> SchemaConfigs
      [] op = "delete" -> DeleteArgs
      [] OTHER -> NameArgs

FacadeOps == SearchOps \cup {"has_collection", "create_collection_with_schema", "delete",
                             "drop_collection"}

\* lines 29-32: a new wrapper holds no client
Facade_New ==
    /\ Idle
    /\ client' = "None"
    /\ call' = NewCall("facade", "__init__", <<>>)
    /\ events' = <<>>
    /\ responses' = <<>>
    /\ outcome' = Returned
    /\ sockOpen' = FALSE
    /\ pc' = "done"
    /\ UNCHANGED <<credentials, collections, alarm, defaultTimeout, pymilvus>>

\* lines 146-149: the keys create_collection_with_schema reads before it
\* touches the client
MissingSchemaKey(op, args) ==
    op = "create_collection_with_schema" /\ "vector_field" \notin DOMAIN args

ClientPropertyAlwaysCreates(held) == "create_client"

\* lines 34-39, the client property: _create_client runs only when _client is
\* None; a client once stored is returned as it is
ClientProperty(held) == IF held = "None" THEN "create_client" ELSE "op"

\* a facade method is entered
Facade_Call ==
    /\ Idle
    /\ \E op \in FacadeOps : \E args \in FacadeArgs(op) :
         /\ call' = NewCall("facade", op, args)
         /\ IF MissingSchemaKey(op, args)
            THEN outcome' = Raised(Exc("KeyError", <<"'vector_field'">>)) /\ pc' = "done"
            ELSE /\ outcome' = Pending
                 /\ pc' = ClientProperty(client)
    /\ events' = <<>>
    /\ responses' = <<>>
    /\ sockOpen' = FALSE
    /\ UNCHANGED <<credentials, collections, client, alarm, defaultTimeout, pymilvus>>

FacadeAt(ops) == pc = "op" /\ call.kind = "facade" /\ call.op \in ops

FacadeFrame == UNCHANGED <<credentials, client, call, responses, alarm, sockOpen,
                           defaultTimeout, pymilvus>>

\* lines 140-142
Facade_HasCollection ==
    /\ FacadeAt({"has_collection"})
    /\ \E fails \in BOOLEAN :
         IF fails
         THEN /\ outcome' = Raised(EngineDown)
              /\ events' = Append(events, HasCollEv(call.args.collection_name, "raised"))
         ELSE /\ outcome' = ReturnedValue(call.args.collection_name \in collections)
              /\ events' = Append(events, HasCollEv(call.args.collection_name,
                                      BoolText(call.args.collection_name \in collections)))
    /\ pc' = "done"
    /\ UNCHANGED collections
    /\ FacadeFrame

\* what create_collection_with_schema does to the schema object, the index
\* parameters and the engine, in order
SchemaEvents(config) ==
    LET fields == SchemaFields(config)
        functions == SchemaFunctions(config)
        indexes == SchemaIndexes(config)
    IN  <<Ev("create_schema", <<>>)>>
        \o [i \in 1..Len(fields) |-> Ev("add_field", fields[i])]
        \o [i \in 1..Len(functions) |-> Ev("add_function", functions[i])]
        \o <<Ev("prepare_index_params", <<>>)>>
        \o [i \in 1..Len(indexes) |-> Ev("add_index", indexes[i])]
        \o <<Ev("create_collection", CreateCollectionArgs(config))>>

AlreadyExists(name) ==
    Exc("MilvusException", <<"collection ">> \o name \o <<" already exist">>)

\* lines 144-194
Facade_CreateCollection ==
    /\ FacadeAt({"create_collection_with_schema"})
    /\ events' = events \o SchemaEvents(call.args)
    /\ \E fails \in BOOLEAN :
         IF fails
         THEN outcome' = Raised(EngineDown) /\ UNCHANGED collections
         ELSE IF call.args.collection_name \in collections
         THEN outcome' = Raised(AlreadyExists(call.args.collection_name))
              /\ UNCHANGED collections
         ELSE outcome' = Returned
              /\ collections' = collections \cup {call.args.collection_name}
    /\ pc' = "done"
    /\ FacadeFrame

\* the field each search method of the facade searches
AnnsField(op) == IF op = "bm25_search" THEN SparseName ELSE <<"vector">>

\* what each search method hands to the engine as data
SearchData(op) == IF op = "bm25_search" THEN "text" ELSE "vector"

SearchArgs(op, name) ==
    [collection_name |-> name, anns_field |-> AnnsField(op), data |-> SearchData(op)]

\* the engine's answer to a search
SearchAnswers(name) ==
    {Raised(EngineDown)}
    \cup (IF name \in collections
          THEN {ReturnedValue(hits) : hits \in HitLists}
          ELSE {Raised(CollectionNotFound(name))})

\* lines 203-252: vector_search, search, bm25_search, hybrid_search
Facade_Search ==
    /\ FacadeAt(SearchOps)
    /\ events' = Log("search", SearchArgs(call.op, call.args.collection_name))
    /\ \E answer \in SearchAnswers(call.args.collection_name) : outcome' = answer
    /\ pc' = "done"
    /\ UNCHANGED collections
    /\ FacadeFrame

\* the delete the facade sends to the engine
DeleteCall(args) == <<Ev("delete", args)>>

\* lines 263-268
Facade_Delete ==
    /\ FacadeAt({"delete"})
    /\ events' = events \o DeleteCall(call.args)
    /\ \E fails \in BOOLEAN :
         outcome' = IF fails THEN Raised(EngineDown)
                    ELSE IF call.args.collection_name \notin collections
                    THEN Raised(CollectionNotFound(call.args.collection_name))
                    ELSE ReturnedValue([delete_count |-> 1])
    /\ pc' = "done"
    /\ UNCHANGED collections
    /\ FacadeFrame

\* lines 270-272
Facade_Drop ==
    /\ FacadeAt({"drop_collection"})
    /\ events' = Log("drop_collection", call.args.collection_name)
    /\ \E fails \in BOOLEAN :
         IF fails
         THEN outcome' = Raised(EngineDown) /\ UNCHANGED collections
         ELSE outcome' = Returned
              /\ collections' = collections \ {call.args.collection_name}
    /\ pc' = "done"
    /\ FacadeFrame

(***************************************************************************)
(* MilvusBaseTool (tools/milvus_base.py).                                  *)
(***************************************************************************)
\* lines 27-37: the credential error of _get_milvus_client, if any
CtxCredentialError ==
    IF NotGiven(credentials, "uri") THEN <<"URI is required">>
    ELSE IF NotGiven(credentials, "user") THEN <<"Username is required">>
    ELSE IF NotGiven(credentials, "password") THEN <<"Password is required">>
    ELSE <<>>

NameStartChars == Letters \cup {"_"}
NameChars == Letters \cup Digits \cup {"_"}
MaxNameLen == 255

\* lines 57-65: re.match(r'^[a-zA-Z_][a-zA-Z0-9_]*$', name); "$" also matches
\* just before a newline that ends the string
ValidCollectionName(name) ==
    /\ name # <<>>
    /\ Len(name) <= MaxNameLen
    /\ LET body == IF name[Len(name)] = "\n" THEN SubSeq(name, 1, Len(name) - 1) ELSE name
       IN  /\ body # <<>>
           /\ body[1] \in NameStartChars
           /\ \A i \in 2..Len(body) : body[i] \in NameChars

ValueError(msg) == Exc("ValueError", msg)

DoesNotExist(name) == ValueError(<<"Collection '">> \o name \o <<"' does not exist">>)

\* a tool invocation ends in its argument checks, before anything was yielded
InvokeFails(e) ==
    /\ responses' = <<FailureResponse(e)>>
    /\ outcome' = Returned
    /\ pc' = "done"

\* the with block is entered: a new wrapper, whose first use connects
InvokeConnects ==
    /\ responses' = <<>>
    /\ outcome' = Pending
    /\ pc' = "create_client"

\* the with statement calls _get_milvus_client
CtxEvent == <<Ev("_get_milvus_client", <<>>)>>

ToolAt(op) == pc = "op" /\ call.kind = "tool" /\ call.op = op

ToolYields(payload) ==
    /\ responses' = Append(responses, SuccessResponse(payload))
    /\ outcome' = Returned
    /\ pc' = "done"

(***************************************************************************)
(* MilvusDeleteTool._invoke (tools/milvus_delete.py:28-81).                *)
(***************************************************************************)
ToolNames == {<<>>, C1Name}

DeleteParams ==
    {Restrict([collection_name |-> n, filter |-> f], ks) :
        n \in ToolNames, f \in Filters, ks \in SUBSET {"collection_name", "filter"}}

SafetyError ==
    ValueError(<<"filter expression is required for safety - cannot delete all data">>)

DeleteUnguarded(params) ==
    IF NotGiven(params, "collection_name") THEN ValueError(<<"collection_name is required">>)
    ELSE NoExc

\* lines 41-48: the argument checks
DeleteArgumentError(params) ==
    IF NotGiven(params, "collection_name") THEN ValueError(<<"collection_name is required">>)
    ELSE IF NotGiven(params, "filter") THEN SafetyError
    ELSE NoExc

\* lines 40-53: the checks and the entry into the with block
DeleteTool_Invoke ==
    /\ Idle
    /\ \E params \in DeleteParams :
         /\ call' = NewCall("tool", "delete", params)
         /\ IF DeleteArgumentError(params) # NoExc
            THEN InvokeFails(DeleteArgumentError(params)) /\ events' = <<>>
                 /\ UNCHANGED client
            ELSE IF CtxCredentialError # <<>>
            THEN InvokeFails(CtxWrap(ValueError(CtxCredentialError))) /\ events' = CtxEvent
                 /\ UNCHANGED client
            ELSE InvokeConnects /\ events' = CtxEvent /\ client' = "None"
    /\ sockOpen' = FALSE
    /\ UNCHANGED <<credentials, collections, alarm, defaultTimeout, pymilvus>>

ToolFrame == UNCHANGED <<credentials, client, call, alarm, sockOpen, defaultTimeout,
                         pymilvus>>

\* lines 56-77: has_collection, delete, the success message
DeleteTool_Body ==
    /\ ToolAt("delete")
    /\ \E down \in BOOLEAN, fails \in BOOLEAN :
         IF down
         THEN /\ events' = Append(events, HasCollEv(call.args.collection_name, "raised"))
              /\ ToolFails(CtxWrap(EngineDown))
         ELSE IF call.args.collection_name \notin collections
         THEN /\ events' = Append(events, HasCollEv(call.args.collection_name, "False"))
              /\ ToolFails(CtxWrap(DoesNotExist(call.args.collection_name)))
         ELSE /\ events' = Append(events, HasCollEv(call.args.collection_name, "True"))
                           \o DeleteCall(call.args)
              /\ IF fails
                 THEN ToolFails(CtxWrap(EngineDown))
                 ELSE ToolYields([collection_name |-> call.args.collection_name,
                                  filter |-> Get(call.args, "filter", <<>>),
                                  delete_count |-> 1])
    /\ UNCHANGED collections
    /\ ToolFrame

(***************************************************************************)
(* MilvusCollectionCreateTool._invoke                                      *)
(* (tools/milvus_collection_create.py:27-111).                             *)
(***************************************************************************)
\* a dimension as the caller may give it: an int, a float n/d, or a string
DimInt(n) == [t |-> "int", n |-> n, d |-> 1, s |-> <<>>]
DimFloat(n, d) == [t |-> "float", n |-> n, d |-> d, s |-> <<>>]
DimStr(s) == [t |-> "str", n |-> 0, d |-> 1, s |-> s]

Dimensions == {DimInt(0), DimInt(-1), DimInt(128), DimInt(32768), DimInt(32769),
               DimFloat(3, 2), DimStr(<<"1", "2", "8">>), DimStr(<<"m">>)}

\* "not dimension"
DimFalsy(x) == IF x.t = "str" THEN x.s = <<>> ELSE x.n = 0

\* int(dimension) raises ValueError
DimIntRaises(x) == x.t = "str" /\ ~IsDigits(x.s)

\* int(dimension): a float is truncated, a digit string is read
DimToInt(x) ==
    IF x.t = "str" THEN ToInt(x.s)
    ELSE IF x.n >= 0 THEN x.n \div x.d ELSE -((-x.n) \div x.d)

MaxDimension == 32768

\* the names a create request may carry: none, a valid one, a malformed one
CreateNames == ToolNames \cup {BadName}

CreateParams ==
    {Restrict([collection_name |-> n, dimension |-> x, enable_bm25 |-> b], ks) :
        n \in CreateNames, x \in Dimensions, b \in BOOLEAN,
        ks \in {{"collection_name", "dimension", "enable_bm25"},
                {"collection_name", "dimension"},
                {"collection_name"},
                {"dimension"}}}

\* lines 40-55: the argument checks
CreateArgumentError(params) ==
    IF NotGiven(params, "collection_name") THEN ValueError(<<"collection_name is required">>)
    ELSE IF "dimension" \notin DOMAIN params \/ DimFalsy(params.dimension)
    THEN ValueError(<<"dimension is required">>)
    ELSE IF DimIntRaises(params.dimension)
    THEN ValueError(<<"dimension must be a valid integer">>)
    ELSE IF DimToInt(params.dimension) <= 0 \/ DimToInt(params.dimension) > MaxDimension
    THEN ValueError(<<"dimension must be between 1 and 32768">>)
    ELSE NoExc

\* lines 39-67: the checks and the entry into the with block
CreateTool_Invoke ==
    /\ Idle
    /\ \E params \in CreateParams :
         /\ call' = NewCall("tool", "create", params)
         /\ IF CreateArgumentError(params) # NoExc
            THEN InvokeFails(CreateArgumentError(params)) /\ events' = <<>>
                 /\ UNCHANGED client
            ELSE IF CtxCredentialError # <<>>
            THEN InvokeFails(CtxWrap(ValueError(CtxCredentialError))) /\ events' = CtxEvent
                 /\ UNCHANGED client
            ELSE InvokeConnects /\ events' = CtxEvent /\ client' = "None"
    /\ sockOpen' = FALSE
    /\ UNCHANGED <<credentials, collections, alarm, defaultTimeout, pymilvus>>

\* lines 75-89: the schema configuration the tool builds
ToolSchemaConfig(params) ==
    LET base == [collection_name |-> params.collection_name,
                 enable_bm25 |-> Get(params, "enable_bm25", FALSE),
                 vector_field |-> [name |-> <<"vector">>,
                                   dim |-> DimToInt(params.dimension)]]
    IN  IF Get(params, "enable_bm25", FALSE)
        THEN [k \in DOMAIN base \cup {"text_field"} |->
                 IF k = "text_field" THEN [name |-> <<"text">>, max_length |-> 65535]
                 ELSE base[k]]
        ELSE base

\* the engine's own refusal of a name it does not accept
InvalidName(name) == Exc("MilvusException", <<"Invalid collection name: ">> \o name)

ExistsError(name) == ValueError(<<"Collection '">> \o name \o <<"' already exists">>)

CreateIfExists(exists) == FALSE

\* line 71: "if client.has_collection(collection_name): raise"
CreateRefused(exists) == exists

\* lines 70-107: has_collection, create_collection_with_schema, the success message
CreateTool_Body ==
    /\ ToolAt("create")
    /\ \E down \in BOOLEAN, fails \in BOOLEAN :
         LET name == call.args.collection_name
             checked == Append(events, HasCollEv(name, BoolText(name \in collections)))
         IN  IF down
             THEN /\ events' = Append(events, HasCollEv(name, "raised"))
                  /\ ToolFails(CtxWrap(EngineDown))
                  /\ UNCHANGED collections
             ELSE IF CreateRefused(name \in collections)
             THEN /\ events' = checked
                  /\ ToolFails(CtxWrap(ExistsError(name)))
                  /\ UNCHANGED collections
             ELSE /\ events' = checked \o SchemaEvents(ToolSchemaConfig(call.args))
                  /\ IF fails
                     THEN ToolFails(CtxWrap(EngineDown)) /\ UNCHANGED collections
                     ELSE IF name \notin CollNames
                     THEN ToolFails(CtxWrap(InvalidName(name))) /\ UNCHANGED collections
                     ELSE IF name \in collections
                     THEN ToolFails(CtxWrap(AlreadyExists(name))) /\ UNCHANGED collections
                     ELSE /\ ToolYields([collection_name |-> name,
                                         dimension |-> DimToInt(call.args.dimension),
                                         enable_bm25 |-> Get(call.args, "enable_bm25", FALSE)])
                          /\ collections' = collections \cup {name}
    /\ ToolFrame

(***************************************************************************)
(* The search tools.  Both enter _get_milvus_client for its credential     *)
(* check only and never use the wrapper it yields: the BM25 tool builds a  *)
(* MilvusClient of its own, the text search tool posts to the REST API.    *)
(***************************************************************************)
RECURSIVE RStripSlash(_)
\* uri.rstrip('/')
RStripSlash(s) ==
    IF s # <<>> /\ s[Len(s)] = "/" THEN RStripSlash(SubSeq(s, 1, Len(s) - 1)) ELSE s

\* tools/milvus_bm25_search.py:55-57, tools/milvus_text_search.py:276-279
HttpUri(uri) ==
    RStripSlash(IF StartsWith(uri, HTTP) \/ StartsWith(uri, HTTPS) THEN uri ELSE HTTP \o uri)

SearchNames == {C1Name, BadName}
QueryTexts == {<<>>, <<"q">>}

\* lines 33-40 (BM25), 36-43 (text search): the argument checks
SearchArgumentError(params) ==
    IF NotGiven(params, "collection_name") THEN ValueError(<<"Collection name is required">>)
    ELSE IF NotGiven(params, "query_text") THEN ValueError(<<"Query text is required">>)
    ELSE IF ~ValidCollectionName(params.collection_name)
    THEN ValueError(<<"Invalid collection name format">>)
    ELSE NoExc

\* a hit as the tools report it
ResultItem(hit) == [id |-> hit.id, score |-> hit.distance, entity |-> <<>>]

ResultItems(hits) == [i \in 1..Len(hits) |-> ResultItem(hits[i])]

Bm25Params ==
    {Restrict([collection_name |-> n, query_text |-> q], ks) :
        n \in SearchNames, q \in QueryTexts,
        ks \in {{"collection_name", "query_text"}, {"collection_name"}, {"query_text"}}}

Bm25SearchArgs(name) == [collection_name |-> name, anns_field |-> <<>>, data |-> "text"]

\* tools/milvus_bm25_search.py:69: "if not client.has_collection(collection_name)"
Bm25Missing(exists) == ~exists

\* tools/milvus_bm25_search.py:14-146
Bm25Tool_Invoke ==
    /\ Idle
    /\ \E params \in Bm25Params :
         /\ call' = NewCall("tool", "bm25_search", params)
         /\ IF SearchArgumentError(params) # NoExc
            THEN /\ events' = <<>>
                 /\ InvokeFails(SearchArgumentError(params))
            ELSE IF CtxCredentialError # <<>>
            THEN /\ events' = CtxEvent
                 /\ InvokeFails(CtxWrap(ValueError(CtxCredentialError)))
            ELSE LET name == params.collection_name
                     built == CtxEvent \o <<Ev("MilvusClient_direct", HttpUri(credentials.uri))>>
                     checked == Append(built, HasCollEv(name, BoolText(name \in collections)))
                     closed == <<Ev("close_client", <<>>)>>
                 IN  \E refused \in BOOLEAN, answer \in SearchAnswers(name) :
                       IF refused
                       THEN /\ events' = built
                            /\ InvokeFails(CtxWrap(EngineDown))
                       ELSE IF Bm25Missing(name \in collections)
                       THEN /\ events' = checked \o closed
                            /\ InvokeFails(CtxWrap(DoesNotExist(name)))
                       ELSE /\ events' = Append(checked, Ev("search", Bm25SearchArgs(name)))
                                         \o closed
                            /\ IF answer.kind = "raised"
                               THEN InvokeFails(CtxWrap(answer.exc))
                               ELSE /\ responses' = <<SuccessResponse(
                                         [total_results |-> Len(answer.value),
                                          results |-> ResultItems(answer.value)])>>
                                    /\ outcome' = Returned
                                    /\ pc' = "done"
    /\ client' = IF SearchArgumentError(call'.args) = NoExc /\ CtxCredentialError = <<>>
                 THEN "None" ELSE client
    /\ sockOpen' = FALSE
    /\ UNCHANGED <<credentials, collections, alarm, defaultTimeout, pymilvus>>

Metrics == {"COSINE", "L2"}
\* min_similarity, in hundredths
Thresholds == {0, 50, 60, 80}

TextSearchParams ==
    {Restrict([collection_name |-> n, query_text |-> q, metric_type |-> m,
               min_similarity |-> t], ks) :
        n \in SearchNames, q \in QueryTexts, m \in Metrics, t \in Thresholds,
        ks \in {{"collection_name", "query_text", "metric_type", "min_similarity"},
                {"collection_name", "query_text", "min_similarity"},
                {"collection_name", "query_text", "metric_type"},
                {"collection_name", "query_text"},
                {"collection_name"}, {"query_text"}}}

PassesRawScore(score, metric, threshold) == score >= threshold

\* tools/milvus_text_search.py:86-91: the hit passes the threshold; scores and
\* the threshold are in hundredths, so 1 / (1 + score) >= min_similarity reads
\* 100 * 100 >= threshold * (100 + score)
PassesThreshold(score, metric, threshold) ==
    IF metric = "L2" THEN 100 * 100 >= threshold * (100 + score)
    ELSE score >= threshold

\* line 92: result["similarity"], as a fraction
Similarity(score, metric) ==
    IF metric = "L2" THEN [num |-> 100, den |-> 100 + score] ELSE [num |-> score, den |-> 100]

WithSimilarity(item, metric) ==
    [id |-> item.id, score |-> item.score, entity |-> item.entity,
     similarity |-> Similarity(item.score, metric)]

RECURSIVE FilterResults(_, _, _)
\* lines 80-95: the hits that pass, in the order they came
FilterResults(items, metric, threshold) ==
    IF items = <<>> THEN <<>>
    ELSE (IF PassesThreshold(Head(items).score, metric, threshold)
          THEN <<WithSimilarity(Head(items), metric)>> ELSE <<>>)
         \o FilterResults(Tail(items), metric, threshold)

\* what the REST search answers: _perform_vector_search turns every failure
\* into {"success": False, "error": ...}
RestAnswers(name) ==
    {Raised(Exc("", <<"Milvus search API error: 503">>))}
    \cup (IF name \in collections
          THEN {ReturnedValue(hits) : hits \in HitLists}
          ELSE {Raised(Exc("", <<"Milvus search failed: ">> \o CollectionNotFound(name).msg))})

\* tools/milvus_text_search.py:16-120, with _perform_vector_search (268-352)
TextSearchTool_Invoke ==
    /\ Idle
    /\ \E params \in TextSearchParams :
         /\ call' = NewCall("tool", "text_search", params)
         /\ IF SearchArgumentError(params) # NoExc
            THEN /\ events' = <<>>
                 /\ InvokeFails(SearchArgumentError(params))
            ELSE IF CtxCredentialError # <<>>
            THEN /\ events' = CtxEvent
                 /\ InvokeFails(CtxWrap(ValueError(CtxCredentialError)))
            ELSE LET name == params.collection_name
                     metric == Get(params, "metric_type", "COSINE")
                     embedded == Append(CtxEvent, Ev("embed", params.query_text))
                     posted == Append(embedded,
                                 Ev("http_search", [uri |-> HttpUri(credentials.uri),
                                                    collection_name |-> name]))
                 IN  \E embeds \in BOOLEAN, answer \in RestAnswers(name) :
                       IF ~embeds
                       THEN /\ events' = embedded
                            /\ InvokeFails(CtxWrap(ValueError(
                                   <<"Text embedding failed: ", "embedding call failed">>)))
                       ELSE /\ events' = IF answer.kind = "raised" THEN posted
                                           ELSE Append(posted, Ev("search_results",
                                                                  ResultItems(answer.value)))
                            /\ IF answer.kind = "raised"
                               THEN InvokeFails(CtxWrap(ValueError(
                                        <<"Vector search failed: ">> \o answer.exc.msg)))
                               ELSE LET items == ResultItems(answer.value)
                                        results ==
                                            IF "min_similarity" \in DOMAIN params
                                            THEN FilterResults(items, metric,
                                                               params.min_similarity)
                                            ELSE items
                                    IN  /\ responses' = <<SuccessResponse(
                                              [total_results |-> Len(results),
                                               results |-> results])>>
                                        /\ outcome' = Returned
                                        /\ pc' = "done"
    /\ client' = IF SearchArgumentError(call'.args) = NoExc /\ CtxCredentialError = <<>>
                 THEN "None" ELSE client
    /\ sockOpen' = FALSE
    /\ UNCHANGED <<credentials, collections, alarm, defaultTimeout, pymilvus>>

(***************************************************************************)
(* convert_to_serializable of MilvusClientWrapper.describe_collection      *)
(* (lib/milvus_client.py:274-301), on values given by their kind: a scalar,*)
(* a list, a tuple, a dict (its items in order), an object with a __dict__ *)
(* (its attributes in order), and a protobuf object without one.           *)
(***************************************************************************)
Scalar(v) == [tag |-> "scalar", v |-> v, items |-> <<>>]
ListOf(items) == [tag |-> "list", v |-> "", items |-> items]
TupleOf(items) == [tag |-> "tuple", v |-> "", items |-> items]
Item(key, value) == [key |-> key, value |-> value]
DictOf(items) == [tag |-> "dict", v |-> "", items |-> items]
ObjectOf(attrs) == [tag |-> "object", v |-> "", items |-> attrs]
Proto(text) == [tag |-> "google", v |-> text, items |-> <<>>]

Leaves == {Scalar("test_collection"), Proto("name: id")}

\* the values that hold v one level down
Wrap(v) ==
    {ListOf(<<v>>), TupleOf(<<v>>), DictOf(<<Item("fields", v)>>)}
    \cup {ListOf(<<v, l>>) : l \in Leaves}
    \cup {DictOf(<<Item("collection_name", l), Item("fields", v)>>) : l \in Leaves}
    \cup {ObjectOf(<<Item("name", v), Item("_private", l)>>) : l \in Leaves}

RECURSIVE Descriptions(_)
\* the values nested at most n deep
Descriptions(n) ==
    IF n = 0 THEN Leaves \cup {ListOf(<<>>), DictOf(<<>>)}
    ELSE LET inner == Descriptions(n - 1)
         IN  inner \cup UNION {Wrap(v) : v \in inner}

\* key.startswith('_')
IsPrivate(key) == key \in {"_private"}

RECURSIVE ConvertItems(_), ConvertAttrs(_), ConvertToSerializable(_)
\* lines 279-299
ConvertToSerializable(obj) ==
    IF obj.tag = "object" THEN DictOf(ConvertAttrs(obj.items))
    ELSE IF obj.tag \in {"list", "tuple"} THEN ListOf(ConvertItems(obj.items))
    ELSE IF obj.tag = "dict"
    THEN ListOf([i \in 1..Len(obj.items) |-> Scalar(obj.items[i].key)])
    ELSE IF obj.tag = "google" THEN Scalar(obj.v)
    ELSE obj

\* line 290: [convert_to_serializable(item) for item in obj]
ConvertItems(items) ==
    IF items = <<>> THEN <<>>
    ELSE <<ConvertToSerializable(Head(items))>> \o ConvertItems(Tail(items))

\* lines 283-286: the attributes whose name does not start with '_'
ConvertAttrs(attrs) ==
    IF attrs = <<>> THEN <<>>
    ELSE (IF IsPrivate(Head(attrs).key) THEN <<>>
          ELSE <<Item(Head(attrs).key, ConvertToSerializable(Head(attrs).value))>>)
         \o ConvertAttrs(Tail(attrs))

(***************************************************************************)
(* The list, describe, drop and query tools and the text embedding tool.   *)
(* The first four share the shape of the delete tool: argument checks, the *)
(* with block on _get_milvus_client, the engine calls, one success         *)
(* message; any exception ends in _handle_error.                           *)
(***************************************************************************)
\* the argument checks of a tool and its entry into the with block
ToolEnters(op, params, argumentError) ==
    /\ call' = NewCall("tool", op, params)
    /\ IF argumentError # NoExc
       THEN InvokeFails(argumentError) /\ events' = <<>> /\ UNCHANGED client
       ELSE IF CtxCredentialError # <<>>
       THEN InvokeFails(CtxWrap(ValueError(CtxCredentialError))) /\ events' = CtxEvent
            /\ UNCHANGED client
       ELSE InvokeConnects /\ events' = CtxEvent /\ client' = "None"
    /\ sockOpen' = FALSE
    /\ UNCHANGED <<credentials, collections, alarm, defaultTimeout, pymilvus>>

NameRequired(params) ==
    IF NotGiven(params, "collection_name") THEN ValueError(<<"collection_name is required">>)
    ELSE NoExc

NameParams == {Restrict([collection_name |-> n], ks) : n \in ToolNames,
                                                       ks \in SUBSET {"collection_name"}}

\* tools/milvus_collection_list.py:39-42
ListTool_Invoke ==
    /\ Idle
    /\ ToolEnters("list", <<>>, NoExc)

\* tools/milvus_collection_list.py:45-57
ListTool_Body ==
    /\ ToolAt("list")
    /\ events' = Log("list_collections", <<>>)
    /\ \E fails \in BOOLEAN :
         IF fails THEN ToolFails(CtxWrap(EngineDown))
         ELSE ToolYields([collections |-> collections, count |-> Cardinality(collections)])
    /\ UNCHANGED collections
    /\ ToolFrame

\* what the engine's client answers to describe_collection: a dict
RawDescription(name) ==
    DictOf(<<Item("collection_name", Scalar("c1")),
             Item("fields", ListOf(<<DictOf(<<Item("name", Scalar("id"))>>)>>))>>)

\* tools/milvus_collection_describe.py:39-47
DescribeTool_Invoke ==
    /\ Idle
    /\ \E params \in NameParams : ToolEnters("describe", params, NameRequired(params))

\* tools/milvus_collection_describe.py:50-66, with lib/milvus_client.py:274-301
DescribeTool_Body ==
    /\ ToolAt("describe")
    /\ \E down \in BOOLEAN, fails \in BOOLEAN :
         LET name == call.args.collection_name
         IN  IF down
             THEN /\ events' = Append(events, HasCollEv(name, "raised"))
                  /\ ToolFails(CtxWrap(EngineDown))
             ELSE IF name \notin collections
             THEN /\ events' = Append(events, HasCollEv(name, "False"))
                  /\ ToolFails(CtxWrap(DoesNotExist(name)))
             ELSE /\ events' = Append(events, HasCollEv(name, "True"))
                               \o <<Ev("describe_collection", name)>>
                  /\ IF fails
                     THEN ToolFails(CtxWrap(EngineDown))
                     ELSE ToolYields([collection_name |-> name,
                                      description |->
                                          ConvertToSerializable(RawDescription(name))])
    /\ UNCHANGED collections
    /\ ToolFrame

DropParams ==
    {Restrict([collection_name |-> n, confirm_delete |-> c], ks) :
        n \in ToolNames, c \in BOOLEAN, ks \in SUBSET {"collection_name", "confirm_delete"}}

\* tools/milvus_collection_drop.py:40-47
DropArgumentError(params) ==
    IF NotGiven(params, "collection_name") THEN ValueError(<<"collection_name is required">>)
    ELSE IF ~Get(params, "confirm_delete", FALSE)
    THEN ValueError(<<"confirm_delete must be set to true to proceed with deletion">>)
    ELSE NoExc

\* tools/milvus_collection_drop.py:39-52
DropTool_Invoke ==
    /\ Idle
    /\ \E params \in DropParams : ToolEnters("drop", params, DropArgumentError(params))

\* tools/milvus_collection_drop.py:55-72
DropTool_Body ==
    /\ ToolAt("drop")
    /\ \E down \in BOOLEAN, fails \in BOOLEAN :
         LET name == call.args.collection_name
         IN  IF down
             THEN /\ events' = Append(events, HasCollEv(name, "raised"))
                  /\ ToolFails(CtxWrap(EngineDown))
                  /\ UNCHANGED collections
             ELSE IF name \notin collections
             THEN /\ events' = Append(events, HasCollEv(name, "False"))
                  /\ ToolFails(CtxWrap(DoesNotExist(name)))
                  /\ UNCHANGED collections
             ELSE /\ events' = Append(events, HasCollEv(name, "True"))
                               \o <<Ev("drop_collection", name)>>
                  /\ IF fails
                     THEN ToolFails(CtxWrap(EngineDown)) /\ UNCHANGED collections
                     ELSE /\ ToolYields([collection_name |-> name])
                          /\ collections' = collections \ {name}
    /\ ToolFrame

\* lib/milvus_client.py:254-255: the parameters of MilvusClientWrapper.query
QueryParameters == {"collection_name", "filter", "output_fields"}

\* tools/milvus_query.py:61-66: the keywords the tool calls client.query with
QueryKeywords == {"collection_name", "filter", "limit", "output_fields"}

\* a call with a keyword the function does not have raises TypeError before
\* the function's body runs
UnexpectedKeyword(keywords, parameters) ==
    IF keywords \subseteq parameters THEN NoExc
    ELSE Exc("TypeError",
             <<"MilvusClientWrapper.query() got an unexpected keyword argument '",
               CHOOSE k \in keywords \ parameters : TRUE, "'">>)

\* the records the engine answers a query with
Records == {<<>>, <<[id |-> 1]>>, <<[id |-> 1], [id |-> 2]>>}

QueryParams ==
    {Restrict([collection_name |-> n, filter |-> f], ks) :
        n \in ToolNames, f \in Filters, ks \in SUBSET {"collection_name", "filter"}}

\* tools/milvus_query.py:39-53
QueryTool_Invoke ==
    /\ Idle
    /\ \E params \in QueryParams : ToolEnters("query", params, NameRequired(params))

\* tools/milvus_query.py:56-77, with lib/milvus_client.py:254-261
QueryTool_Body ==
    /\ ToolAt("query")
    /\ \E down \in BOOLEAN, fails \in BOOLEAN, records \in Records :
         LET name == call.args.collection_name
         IN  IF down
             THEN /\ events' = Append(events, HasCollEv(name, "raised"))
                  /\ ToolFails(CtxWrap(EngineDown))
             ELSE IF name \notin collections
             THEN /\ events' = Append(events, HasCollEv(name, "False"))
                  /\ ToolFails(CtxWrap(DoesNotExist(name)))
             ELSE IF UnexpectedKeyword(QueryKeywords, QueryParameters) # NoExc
             THEN /\ events' = Append(events, HasCollEv(name, "True"))
                  /\ ToolFails(CtxWrap(UnexpectedKeyword(QueryKeywords, QueryParameters)))
             ELSE /\ events' = Append(events, HasCollEv(name, "True"))
                               \o <<Ev("query", [collection_name |-> name,
                                                 filter |-> Get(call.args, "filter", <<>>)])>>
                  /\ IF fails
                     THEN ToolFails(CtxWrap(EngineDown))
                     ELSE ToolYields([collection_name |-> name, query_results |-> records,
                                      result_count |-> Len(records)])
    /\ UNCHANGED collections
    /\ ToolFrame

RECURSIVE Strip(_)
\* str.strip
Strip(s) ==
    IF s # <<>> /\ s[1] = " " THEN Strip(Tail(s))
    ELSE IF s # <<>> /\ s[Len(s)] = " " THEN Strip(SubSeq(s, 1, Len(s) - 1))
    ELSE s

EmbeddingParams ==
    {Restrict([text |-> t, model |-> m], ks) :
        t \in {<<>>, <<" ">>, <<"q">>}, m \in {<<>>, <<"m">>}, ks \in SUBSET {"text", "model"}}

\* tools/milvus_text_embedding.py:39-47
EmbeddingArgumentError(params) ==
    IF Strip(Get(params, "text", <<>>)) = <<>>
    THEN ValueError(<<"Input text is required for embedding">>)
    ELSE IF NotGiven(params, "model")
    THEN ValueError(<<"Model configuration is required (select an embedding model)">>)
    ELSE NoExc

\* what _get_dify_embedding returns: an embedding, or a failure with its error
EmbeddingResults ==
    {[success |-> TRUE, error |-> <<>>],
     [success |-> FALSE, error |-> <<"Embedding model returned empty result">>]}

\* tools/milvus_text_embedding.py:26-110
EmbeddingTool_Invoke ==
    /\ Idle
    /\ \E params \in EmbeddingParams, result \in EmbeddingResults :
         /\ call' = NewCall("tool", "text_embedding", params)
         /\ IF EmbeddingArgumentError(params) # NoExc
            THEN InvokeFails(EmbeddingArgumentError(params)) /\ events' = <<>>
            ELSE /\ events' = <<Ev("embed", Strip(params.text))>>
                 /\ outcome' = Returned
                 /\ pc' = "done"
                 /\ responses' =
                        IF result.success
                        THEN <<SuccessResponse([operation |-> "text_embedding",
                                                text |-> Strip(params.text)])>>
                        ELSE <<FailureResponse(
                                   ValueError(<<"Text embedding failed: ">> \o result.error))>>
    /\ sockOpen' = FALSE
    /\ UNCHANGED <<credentials, collections, client, alarm, defaultTimeout, pymilvus>>

(***************************************************************************)
(* The system: a plugin runtime with its credentials, where the provider   *)
(* validates, tools are invoked and the facade is called, one call at a    *)
(* time.                                                                   *)
(***************************************************************************)
Init ==
    /\ credentials \in AllCredentials
    /\ pymilvus \in BOOLEAN
    /\ collections \in SUBSET CollNames
    /\ client = "None"
    /\ pc = "idle"
    /\ call = NewCall("none", "", <<>>)
    /\ events = <<>>
    /\ outcome = Pending
    /\ responses = <<>>
    /\ alarm = FALSE
    /\ sockOpen = FALSE
    /\ defaultTimeout = NoTimeout

\* the caller has taken the result of the call; the call's frame, and with it
\* any probe socket it still held, is gone
Caller_Returns ==
    /\ pc = "done"
    /\ pc' = "idle"
    /\ call' = NewCall("none", "", <<>>)
    /\ events' = <<>>
    /\ outcome' = Pending
    /\ responses' = <<>>
    /\ sockOpen' = FALSE
    /\ UNCHANGED <<credentials, collections, client, alarm, defaultTimeout, pymilvus>>

Next ==
    \/ Caller_Returns
    \/ Provider_Validate
    \/ Provider_Dns
    \/ Provider_Tcp
    \/ Provider_Handshake
    \/ Provider_Return
    \/ Provider_Timeout
    \/ AlarmFires
    \/ CreateClient_Check
    \/ CreateClient_Dns
    \/ CreateClient_Tcp
    \/ CreateClient_Handshake
    \/ CreateClient_Return
    \/ CreateClient_Timeout
    \/ CreateClient_Raise
    \/ Facade_New
    \/ Facade_Call
    \/ Facade_HasCollection
    \/ Facade_CreateCollection
    \/ Facade_Search
    \/ Facade_Delete
    \/ Facade_Drop
    \/ DeleteTool_Invoke
    \/ DeleteTool_Body
    \/ CreateTool_Invoke
    \/ CreateTool_Body
    \/ Bm25Tool_Invoke
    \/ TextSearchTool_Invoke
    \/ ListTool_Invoke
    \/ ListTool_Body
    \/ DescribeTool_Invoke
    \/ DescribeTool_Body
    \/ DropTool_Invoke
    \/ DropTool_Body
    \/ QueryTool_Invoke
    \/ QueryTool_Body
    \/ EmbeddingTool_Invoke

Spec == Init /\ [][Next]_vars

(***************************************************************************)
(* URI normalization on its own: the scheme coercion applied to a URI, and *)
(* applied again to its result.                                            *)
(***************************************************************************)
InitNormalize ==
    /\ credentials \in {[uri |-> u] : u \in AllUris \ {<<>>}}
    /\ pymilvus = TRUE
    /\ collections = {}
    /\ client = "None"
    /\ pc = "idle"
    /\ call = NewCall("none", "", <<>>)
    /\ events = <<>>
    /\ outcome = Pending
    /\ responses = <<>>
    /\ alarm = FALSE
    /\ sockOpen = FALSE
    /\ defaultTimeout = NoTimeout

Normalize_Once ==
    /\ pc = "idle"
    /\ call' = NewCall("function", "normalize", [uri |-> credentials.uri])
    /\ outcome' = ReturnedValue(NormalizeUri(credentials.uri))
    /\ pc' = "normalized"
    /\ UNCHANGED <<credentials, collections, client, events, responses, alarm, sockOpen,
                   defaultTimeout, pymilvus>>

Normalize_Again ==
    /\ pc = "normalized"
    /\ call' = NewCall("function", "normalize", [uri |-> outcome.value])
    /\ outcome' = ReturnedValue(NormalizeUri(outcome.value))
    /\ pc' = "renormalized"
    /\ UNCHANGED <<credentials, collections, client, events, responses, alarm, sockOpen,
                   defaultTimeout, pymilvus>>

NextNormalize == Normalize_Once \/ Normalize_Again

SpecNormalize == InitNormalize /\ [][NextNormalize]_vars

(***************************************************************************)
(* _validate_collection_name on its own (tools/milvus_base.py:57-65),      *)
(* applied to strings and to values that are no strings.                   *)
(***************************************************************************)
NameAlphabet == {"c", "M", "1", "_", "-", ".", " ", "\n"}

RECURSIVE NameSeqs(_)
\* the strings of exactly n characters
NameSeqs(n) ==
    IF n = 0 THEN {<<>>}
    ELSE {<<c>> \o t : c \in NameAlphabet, t \in NameSeqs(n - 1)}

\* "c" * n, and the same with a digit in front
Repeated(n) == [i \in 1..n |-> "c"]

LongNames == {Repeated(MaxNameLen - 1), Repeated(MaxNameLen), Repeated(MaxNameLen + 1),
              <<"1">> \o Repeated(MaxNameLen - 1),
              Repeated(MaxNameLen - 1) \o <<"\n">>, Repeated(MaxNameLen) \o <<"\n">>}

Str(s) == [type |-> "str", str |-> s]

\* None and 123, the values of the unit test that are no strings
NonStrings == {[type |-> "NoneType", str |-> <<>>], [type |-> "int", str |-> <<"1", "2", "3">>]}

NameInputs ==
    {Str(s) : s \in UNION {NameSeqs(n) : n \in 0..MaxNameChars} \cup LongNames} \cup NonStrings

\* lines 59-65: "not collection_name or not isinstance(collection_name, str)",
\* then the length and the pattern
ValidateCollectionName(x) == x.type = "str" /\ ValidCollectionName(x.str)

InitValidate ==
    /\ credentials \in AllCredentials
    /\ pymilvus = TRUE
    /\ collections = {}
    /\ client = "None"
    /\ pc = "idle"
    /\ call = NewCall("none", "", <<>>)
    /\ events = <<>>
    /\ outcome = Pending
    /\ responses = <<>>
    /\ alarm = FALSE
    /\ sockOpen = FALSE
    /\ defaultTimeout = NoTimeout

Validate_Name ==
    /\ pc = "idle"
    /\ \E x \in NameInputs :
         /\ call' = NewCall("function", "_validate_collection_name", [collection_name |-> x])
         /\ outcome' = ReturnedValue(ValidateCollectionName(x))
    /\ pc' = "validated"
    /\ UNCHANGED <<credentials, collections, client, events, responses, alarm, sockOpen,
                   defaultTimeout, pymilvus>>

Validate_Returns ==
    /\ pc = "validated"
    /\ pc' = "idle"
    /\ call' = NewCall("none", "", <<>>)
    /\ outcome' = Pending
    /\ UNCHANGED <<credentials, collections, client, events, responses, alarm, sockOpen,
                   defaultTimeout, pymilvus>>

NextValidate == Validate_Name \/ Validate_Returns

SpecValidate == InitValidate /\ [][NextValidate]_vars

(***************************************************************************)
(* The error classifier, MilvusBaseTool._create_error_response             *)
(* (tools/milvus_base.py:96-141), on error texts spelled out character by  *)
(* character.                                                              *)
(***************************************************************************)
UpperToLower ==
    ("A" :> "a") @@ ("B" :> "b") @@ ("C" :> "c") @@ ("D" :> "d") @@ ("E" :> "e") @@ ("F" :> "f")
    @@ ("G" :> "g") @@ ("H" :> "h") @@ ("I" :> "i") @@ ("J" :> "j") @@ ("K" :> "k") @@ ("L" :> "l")
    @@ ("M" :> "m") @@ ("N" :> "n") @@ ("O" :> "o") @@ ("P" :> "p") @@ ("Q" :> "q") @@ ("R" :> "r")
    @@ ("S" :> "s") @@ ("T" :> "t") @@ ("U" :> "u") @@ ("V" :> "v") @@ ("W" :> "w") @@ ("X" :> "x")
    @@ ("Y" :> "y") @@ ("Z" :> "z")

\* str.lower
LowerAscii(c) == IF c \in DOMAIN UpperToLower THEN UpperToLower[c] ELSE c
LowerText(s) == [i \in 1..Len(s) |-> LowerAscii(s[i])]

\* "k in s"
IsSubstring(k, s) == \E i \in 1..(Len(s) - Len(k) + 1) : SubSeq(s, i, i + Len(k) - 1) = k

KwPermissionDenied == <<"p", "e", "r", "m", "i", "s", "s", "i", "o", "n", " ", "d", "e", "n", "i", "e", "d">>
KwHandshakeFailed == <<"h", "a", "n", "d", "s", "h", "a", "k", "e", " ", "f", "a", "i", "l", "e", "d">>
KwInvalidKey == <<"i", "n", "v", "a", "l", "i", "d", " ", "k", "e", "y">>
KwConnection == <<"c", "o", "n", "n", "e", "c", "t", "i", "o", "n">>
KwTimeout == <<"t", "i", "m", "e", "o", "u", "t">>
KwNotFound == <<"n", "o", "t", " ", "f", "o", "u", "n", "d">>
KwDoesNotExist == <<"d", "o", "e", "s", " ", "n", "o", "t", " ", "e", "x", "i", "s", "t">>

\* the pieces error texts are put together from: the keywords in several
\* spellings, halves of keywords, and text that holds no keyword
Phrases == {<<"P", "e", "r", "m", "i", "s", "s", "i", "o", "n", " ", "D", "e", "n", "i", "e", "d">>, <<"H", "a", "n", "d", "s", "h", "a", "k", "e", " ", "f", "a", "i", "l", "e", "d">>, <<"I", "N", "V", "A", "L", "I", "D", " ", "K", "E", "Y">>,
            <<"C", "o", "n", "n", "e", "c", "t", "i", "o", "n">>, <<"t", "i", "m", "e", "o", "u", "t">>, <<"d", "o", "e", "s", " ", "n", "o", "t", " ", "e", "x", "i", "s", "t">>,
            <<"n", "o", "t">>, <<"f", "o", "u", "n", "d">>, <<" ">>, <<"c", "1">>, <<"t", "i", "m", "e">>, <<"o", "u", "t">>}

RECURSIVE PhraseTexts(_)
\* the texts of exactly n phrases
PhraseTexts(n) ==
    IF n = 0 THEN {<<>>}
    ELSE {ph \o t : ph \in Phrases, t \in PhraseTexts(n - 1)}

ErrorTexts == UNION {PhraseTexts(n) : n \in 0..MaxPhrases}

\* an exception with its text spelled out
Err(type, text) == [type |-> type, text |-> text]

ClassifierErrors == {Err(t, m) : t \in {"ValueError", "MilvusException"}, m \in ErrorTexts}

\* the operation names a caller may pass; "operation" is the default
Operations == {<<"o", "p", "e", "r", "a", "t", "i", "o", "n">>, <<"s", "e", "a", "r", "c", "h">>}

\* str.title on a single lower-case word
Title(w) ==
    [i \in 1..Len(w) |->
        IF i = 1
        THEN (CHOOSE u \in DOMAIN UpperToLower : UpperToLower[u] = w[1])
        ELSE w[i]]

ErrorResponse(error, errorType, operation, suggestion) ==
    [success |-> FALSE, error |-> error, error_type |-> errorType, operation |-> operation,
     suggestion |-> suggestion]

CreateErrorResponseConnectionFirst(e, operation) ==
    LET low == LowerText(e.text)
    IN  IF IsSubstring(KwConnection, low) \/ IsSubstring(KwTimeout, low)
        THEN ErrorResponse(<<"Network connectivity issue: Cannot reach required service">>,
                           "ConnectionError", operation,
                           "Verify network connectivity and service availability")
        ELSE ErrorResponse(Title(operation) \o <<" ", "f", "a", "i", "l", "e", "d", ":", " ">> \o e.text, e.type, operation,
                           "Please check the input parameters and try again")

\* lines 96-141
CreateErrorResponse(e, operation) ==
    LET low == LowerText(e.text)
    IN  IF IsSubstring(KwPermissionDenied, low)
        THEN ErrorResponse(
                 <<"Permission denied: Required access not enabled in plugin configuration">>,
                 "PermissionError", operation,
                 "Please check plugin manifest permissions or contact administrator")
        ELSE IF IsSubstring(KwHandshakeFailed, low) \/ IsSubstring(KwInvalidKey, low)
        THEN ErrorResponse(
                 <<"Authentication failed: Plugin connection key is invalid or expired">>,
                 "AuthenticationError", operation,
                 "Please restart the plugin or check Dify server connection")
        ELSE IF IsSubstring(KwConnection, low) \/ IsSubstring(KwTimeout, low)
        THEN ErrorResponse(<<"Network connectivity issue: Cannot reach required service">>,
                           "ConnectionError", operation,
                           "Verify network connectivity and service availability")
        ELSE IF IsSubstring(KwNotFound, low) \/ IsSubstring(KwDoesNotExist, low)
        THEN ErrorResponse(<<"R", "e", "s", "o", "u", "r", "c", "e", " ", "n", "o", "t", " ", "f", "o", "u", "n", "d", ":", " ">> \o e.text, "ResourceNotFoundError",
                           operation, "Please verify the resource name and ensure it exists")
        ELSE ErrorResponse(Title(operation) \o <<" ", "f", "a", "i", "l", "e", "d", ":", " ">> \o e.text, e.type, operation,
                           "Please check the input parameters and try again")

InitClassify ==
    /\ credentials = [uri |-> <<"m">>, user |-> <<"r">>, password |-> <<"r">>]
    /\ pymilvus = TRUE
    /\ collections = {}
    /\ client = "None"
    /\ pc = "idle"
    /\ call = NewCall("none", "", <<>>)
    /\ events = <<>>
    /\ outcome = Pending
    /\ responses = <<>>
    /\ alarm = FALSE
    /\ sockOpen = FALSE
    /\ defaultTimeout = NoTimeout

Classify_Error ==
    /\ pc = "idle"
    /\ \E e \in ClassifierErrors, operation \in Operations :
         /\ call' = NewCall("function", "_create_error_response",
                            [error |-> e, operation |-> operation])
         /\ outcome' = ReturnedValue(CreateErrorResponse(e, operation))
    /\ pc' = "classified"
    /\ UNCHANGED <<credentials, collections, client, events, responses, alarm, sockOpen,
                   defaultTimeout, pymilvus>>

Classify_Returns ==
    /\ pc = "classified"
    /\ pc' = "idle"
    /\ call' = NewCall("none", "", <<>>)
    /\ outcome' = Pending
    /\ UNCHANGED <<credentials, collections, client, events, responses, alarm, sockOpen,
                   defaultTimeout, pymilvus>>

NextClassify == Classify_Error \/ Classify_Returns

SpecClassify == InitClassify /\ [][NextClassify]_vars

(***************************************************************************)
(* describe_collection's conversion on its own, applied to descriptions of *)
(* every kind.                                                             *)
(***************************************************************************)
InitConvert ==
    /\ credentials = [uri |-> <<"m">>, user |-> <<"r">>, password |-> <<"r">>]
    /\ pymilvus = TRUE
    /\ collections = {}
    /\ client = "connected"
    /\ pc = "idle"
    /\ call = NewCall("none", "", <<>>)
    /\ events = <<>>
    /\ outcome = Pending
    /\ responses = <<>>
    /\ alarm = FALSE
    /\ sockOpen = FALSE
    /\ defaultTimeout = NoTimeout

\* lines 276 and 301: the engine's description, converted
Convert_Description ==
    /\ pc = "idle"
    /\ \E raw \in Descriptions(MaxDepth) :
         /\ call' = NewCall("function", "convert_to_serializable", [raw_description |-> raw])
         /\ outcome' = ReturnedValue(ConvertToSerializable(raw))
    /\ pc' = "converted"
    /\ UNCHANGED <<credentials, collections, client, events, responses, alarm, sockOpen,
                   defaultTimeout, pymilvus>>

Convert_Returns ==
    /\ pc = "converted"
    /\ pc' = "idle"
    /\ call' = NewCall("none", "", <<>>)
    /\ outcome' = Pending
    /\ UNCHANGED <<credentials, collections, client, events, responses, alarm, sockOpen,
                   defaultTimeout, pymilvus>>

NextConvert == Convert_Description \/ Convert_Returns

SpecConvert == InitConvert /\ [][NextConvert]_vars

(***************************************************************************)
(* convert_to_serializable on object graphs that may refer back to         *)
(* themselves (lib/milvus_client.py:279-299).  A graph is a heap: each     *)
(* node has a kind and the nodes it refers to, in order.  Python allows a  *)
(* bounded number of nested calls and raises RecursionError beyond it.     *)
(***************************************************************************)
MaxNodes == 2
RecursionLimit == 3

Nodes == 1..MaxNodes

\* the references a node may hold: none, one or two
Refs == {<<>>} \cup {<<n>> : n \in Nodes} \cup {<<n, m>> : n \in Nodes, m \in Nodes}

Node(kind, refs) == [kind |-> kind, refs |-> refs]

\* a scalar, an object with a __dict__ (refs: its public attributes' values),
\* a list (refs: its items), a dict (refs: its values)
NodeValues == {Node("scalar", <<>>)}
              \cup {Node(k, r) : k \in {"object", "list", "dict"}, r \in Refs}

Heaps == [Nodes -> NodeValues]

RECURSIVE ConversionEnds(_, _, _)
\* how convert_to_serializable(node n) ends when it is the depth-th nested
\* call: "converted", "stringified" (line 293, a list whose conversion raised
\* is returned as str(obj)) or "RecursionError"
ConversionEnds(heap, n, depth) ==
    IF depth > RecursionLimit THEN "RecursionError"
    ELSE LET refs == heap[n].refs
             raises == \E i \in 1..Len(refs) :
                          ConversionEnds(heap, refs[i], depth + 1) = "RecursionError"
         IN  CASE heap[n].kind = "object" ->
                      \* lines 281-287: no handler around the recursive calls
                      IF raises THEN "RecursionError" ELSE "converted"
               [] heap[n].kind = "list" ->
                      \* lines 288-293: except Exception catches RecursionError
                      IF raises THEN "stringified" ELSE "converted"
               [] heap[n].kind = "dict" ->
                      \* iterating a dict yields its keys: the values are not visited
                      "converted"
               [] OTHER -> "converted"

RecursionError == Exc("RecursionError", <<"maximum recursion depth exceeded">>)

InitGraph ==
    /\ credentials = [uri |-> <<"m">>, user |-> <<"r">>, password |-> <<"r">>]
    /\ pymilvus = TRUE
    /\ collections = {}
    /\ client = "connected"
    /\ pc = "idle"
    /\ call = NewCall("none", "", <<>>)
    /\ events = <<>>
    /\ outcome = Pending
    /\ responses = <<>>
    /\ alarm = FALSE
    /\ sockOpen = FALSE
    /\ defaultTimeout = NoTimeout

\* line 301: convert_to_serializable(raw_description), the first call
Graph_Convert ==
    /\ pc = "idle"
    /\ \E heap \in Heaps, root \in Nodes :
         /\ call' = NewCall("function", "convert_to_serializable",
                            [heap |-> heap, root |-> root])
         /\ outcome' = IF ConversionEnds(heap, root, 1) = "RecursionError"
                       THEN Raised(RecursionError)
                       ELSE ReturnedValue(ConversionEnds(heap, root, 1))
    /\ pc' = "graph_converted"
    /\ UNCHANGED <<credentials, collections, client, events, responses, alarm, sockOpen,
                   defaultTimeout, pymilvus>>

Graph_Returns ==
    /\ pc = "graph_converted"
    /\ pc' = "idle"
    /\ call' = NewCall("none", "", <<>>)
    /\ outcome' = Pending
    /\ UNCHANGED <<credentials, collections, client, events, responses, alarm, sockOpen,
                   defaultTimeout, pymilvus>>

NextGraph == Graph_Convert \/ Graph_Returns

SpecGraph == InitGraph /\ [][NextGraph]_vars

(***************************************************************************)
(* run_plugin_with_retry (main.py:34-79).  The local retry_count is kept   *)
(* in call.args; events record each plugin.run(), time.sleep and sys.exit. *)
(***************************************************************************)
\* the largest max_retries tried; the default, 5, is among them
MaxRetries == 5

DefaultRetryDelay == 30

\* what plugin.run() may raise that "except Exception" catches
RunErrors ==
    {Err("Exception", <<"H", "a", "n", "d", "s", "h", "a", "k", "e", " ", "f", "a", "i", "l", "e", "d">>),
     Err("ConnectionError", <<"C", "o", "n", "n", "e", "c", "t", "i", "o", "n">>),
     Err("RuntimeError", <<"c", "1">>)}

SystemExit(status) == Exc("SystemExit", <<status>>)

KeyboardInterrupt == Exc("KeyboardInterrupt", <<>>)

\* lines 58-71: which of the three branches logs the error
RetryBranch(e) ==
    LET low == LowerText(e.text)
    IN  IF IsSubstring(KwHandshakeFailed, low) \/ IsSubstring(KwInvalidKey, low)
        THEN "Authentication error"
        ELSE IF IsSubstring(KwConnection, low)
        THEN "Connection error"
        ELSE "Unexpected error"

\* lines 60, 66, 72: "if retry_count < max_retries" before time.sleep
SleepsBeforeRetry(retry_count, max_retries) == retry_count < max_retries

RetryFrame == UNCHANGED <<credentials, collections, client, responses, alarm, sockOpen,
                          defaultTimeout, pymilvus>>

InitRetry ==
    /\ credentials = [uri |-> <<"m">>, user |-> <<"r">>, password |-> <<"r">>]
    /\ pymilvus = TRUE
    /\ collections = {}
    /\ client = "None"
    /\ pc = "idle"
    /\ call = NewCall("none", "", <<>>)
    /\ events = <<>>
    /\ outcome = Pending
    /\ responses = <<>>
    /\ alarm = FALSE
    /\ sockOpen = FALSE
    /\ defaultTimeout = NoTimeout

\* lines 34-36: the call, with retry_count = 0
Retry_Call ==
    /\ pc = "idle"
    /\ \E m \in 0..MaxRetries :
         call' = NewCall("function", "run_plugin_with_retry",
                         [max_retries |-> m, retry_delay |-> DefaultRetryDelay,
                          retry_count |-> 0])
    /\ pc' = "retry_while"
    /\ UNCHANGED <<events, outcome>>
    /\ RetryFrame

\* line 38, and lines 77-79 when the loop condition fails
Retry_While ==
    /\ pc = "retry_while"
    /\ IF call.args.retry_count < call.args.max_retries
       THEN /\ pc' = "retry_run"
            /\ UNCHANGED <<events, outcome>>
       ELSE /\ events' = Log("exit", "1")
            /\ outcome' = Raised(SystemExit("1"))
            /\ pc' = "retry_done"
    /\ UNCHANGED call
    /\ RetryFrame

\* lines 39-75: one attempt of plugin.run() and its handlers, up to the sleep
Retry_Run ==
    /\ pc = "retry_run"
    /\ \E how \in {"returned", "KeyboardInterrupt", "Exception"}, e \in RunErrors :
         CASE how = "returned" ->
                \* break, then line 77 with retry_count unchanged
                /\ IF call.args.retry_count >= call.args.max_retries
                   THEN /\ events' = events \o <<Ev("run", how), Ev("exit", "1")>>
                        /\ outcome' = Raised(SystemExit("1"))
                   ELSE /\ events' = Log("run", how)
                        /\ outcome' = ReturnedValue(<<>>)
                /\ pc' = "retry_done"
                /\ UNCHANGED call
           [] how = "KeyboardInterrupt" ->
                /\ events' = events \o <<Ev("run", how), Ev("exit", "0")>>
                /\ outcome' = Raised(SystemExit("0"))
                /\ pc' = "retry_done"
                /\ UNCHANGED call
           [] OTHER ->
                /\ events' = events \o <<Ev("run", how), Ev("log", RetryBranch(e))>>
                /\ call' = [call EXCEPT !.args.retry_count = @ + 1]
                /\ pc' = IF SleepsBeforeRetry(call.args.retry_count + 1, call.args.max_retries)
                         THEN "retry_sleep"
                         ELSE "retry_while"
                /\ UNCHANGED outcome
    /\ RetryFrame

\* lines 62, 68, 74: time.sleep(retry_delay) inside the "except Exception"
\* handler, then continue; a KeyboardInterrupt raised while sleeping is caught
\* by no handler of the function
Retry_Sleep ==
    /\ pc = "retry_sleep"
    /\ \E interrupted \in BOOLEAN :
         IF interrupted
         THEN /\ events' = Log("sleep", "KeyboardInterrupt")
              /\ outcome' = Raised(KeyboardInterrupt)
              /\ pc' = "retry_done"
         ELSE /\ events' = Log("sleep", "returned")
              /\ pc' = "retry_while"
              /\ UNCHANGED outcome
    /\ UNCHANGED call
    /\ RetryFrame

Retry_Returns ==
    /\ pc = "retry_done"
    /\ pc' = "idle"
    /\ call' = NewCall("none", "", <<>>)
    /\ events' = <<>>
    /\ outcome' = Pending
    /\ RetryFrame

NextRetry == Retry_Call \/ Retry_While \/ Retry_Run \/ Retry_Sleep \/ Retry_Returns

SpecRetry == InitRetry /\ [][NextRetry]_vars

(***************************************************************************)
(* Properties.                                                             *)
(***************************************************************************)
EventIndexes(ops) == {i \in 1..Len(events) : events[i].op \in ops}

Happened(ops) == EventIndexes(ops) # {}

IsMissing(d, k) == k \notin DOMAIN d \/ d[k] = <<>>

OneFailure(type, msg) ==
    responses = <<[success |-> FALSE, error |-> msg, error_type |-> type, payload |-> <<>>]>>

DeleteInvocation == call.kind = "tool" /\ call.op = "delete"

\* C1: a delete invocation with an absent or empty filter ends at once with
\* exactly one failure message and has entered no _get_milvus_client, checked no
\* collection and issued no delete; given a collection name, the message is the
\* safety error.  With a filter, once has_collection has returned True, exactly
\* one delete was issued, carrying the collection name and that filter.
C1_DeleteSafety ==
    DeleteInvocation =>
        /\ IsMissing(call.args, "filter") =>
              /\ pc = "done"
              /\ events = <<>>
              /\ Len(responses) = 1
              /\ ~responses[1].success
              /\ ~IsMissing(call.args, "collection_name") =>
                    OneFailure("ValueError",
                        <<"filter expression is required for safety - cannot delete all data">>)
        /\ (~IsMissing(call.args, "filter") /\ pc = "done"
              /\ \E i \in 1..Len(events) :
                    events[i] = HasCollEv(call.args.collection_name, "True")) =>
              /\ Cardinality(EventIndexes({"delete"})) = 1
              /\ \A i \in EventIndexes({"delete"}) :
                    /\ events[i].arg.filter = call.args.filter
                    /\ events[i].arg.collection_name = call.args.collection_name

C1_Witness ==
    /\ DeleteInvocation
    /\ pc = "done"
    /\ "filter" \in DOMAIN call.args
    /\ call.args.filter = <<>>
    /\ ~IsMissing(call.args, "collection_name")
    /\ OneFailure("ValueError",
           <<"filter expression is required for safety - cannot delete all data">>)

\* C1 as first stated: every delete invocation with an absent or empty filter
\* ends with the safety error, whatever its other parameters
C1_SafetyErrorForEveryName ==
    (DeleteInvocation /\ IsMissing(call.args, "filter")) =>
        OneFailure("ValueError",
            <<"filter expression is required for safety - cannot delete all data">>)

\* C2: the engine-side delete never receives an empty or absent filter,
\* whoever calls the facade
C2_FacadeDeleteRejectsEmptyFilter ==
    \A i \in EventIndexes({"delete"}) : ~IsMissing(events[i].arg, "filter")

NetworkOps == {"gethostbyname", "socket", "connect_ex", "MilvusClient", "MilvusClient_direct",
               "has_collection", "search", "http_search", "list_collections",
               "describe_collection", "drop_collection", "query", "delete",
               "create_collection"}

FirstMissing ==
    IF IsMissing(credentials, "uri") THEN "uri"
    ELSE IF IsMissing(credentials, "user") THEN "user"
    ELSE IF IsMissing(credentials, "password") THEN "password"
    ELSE "none"

RequiredText(k) ==
    CASE k = "uri" -> "URI is required"
      [] k = "user" -> "Username is required"
      [] k = "password" -> "Password is required"

\* C3: with uri, user or password absent or empty, no call resolves a name,
\* opens a socket or constructs an engine client, and connection establishment
\* ends with the "required" error of the first missing field: _create_client
\* raises ValueError with it, a tool that entered _get_milvus_client reports it
\* behind "Failed to connect to Milvus: ", and provider validation (with the
\* PyMilvus import in place) raises it as a credential validation error, the
\* URI one reading "Milvus URI is required"
C3_CredentialsCheckedFirst ==
    FirstMissing # "none" =>
        /\ ~Happened(NetworkOps)
        /\ (pc = "done" /\ call.kind = "facade" /\ Happened({"_create_client"})) =>
              outcome = Raised(Exc("ValueError", <<RequiredText(FirstMissing)>>))
        /\ (pc = "done" /\ call.kind = "tool" /\ Happened({"_get_milvus_client"})) =>
              OneFailure("ValueError",
                  <<"Failed to connect to Milvus: ", RequiredText(FirstMissing)>>)
        /\ (pc = "done" /\ call.kind = "provider" /\ pymilvus) =>
              outcome = Raised(Exc("ToolProviderCredentialValidationError",
                  <<IF FirstMissing = "uri" THEN "Milvus URI is required"
                    ELSE RequiredText(FirstMissing)>>))

C3_Witness ==
    /\ pc = "done"
    /\ call.kind = "tool"
    /\ Happened({"_get_milvus_client"})
    /\ "password" \in DOMAIN credentials
    /\ FirstMissing = "password"
    /\ OneFailure("ValueError", <<"Failed to connect to Milvus: ", "Password is required">>)

HandshakeSteps == {"handshake", "hs_returned", "hs_raised", "hs_timeout",
                   "pv_handshake", "pv_returned", "pv_timeout"}

\* C4: an alarm is armed only while a handshake step is under way; once the
\* step has ended - client returned, timeout, or another exception - no alarm
\* remains armed
C4_WatchdogDisarmed == alarm => pc \in HandshakeSteps

C4_Witness ==
    /\ pc = "done"
    /\ ~alarm
    /\ Happened({"SIGALRM"})
    /\ outcome.kind = "raised"
    /\ outcome.exc = Exc("TimeoutError", <<"MilvusClient creation timed out after 8 seconds">>)

FiredInFlight ==
    \E i \in EventIndexes({"SIGALRM"}) : events[i].arg \in {<<"handshake">>, <<"pv_handshake">>}

TimeoutText == "MilvusClient creation timed out after 8 seconds"

\* C5: when the watchdog fires while the handshake is in flight, the attempt
\* ends with the handshake-timeout outcome, "MilvusClient creation timed out
\* after 8 seconds", in _create_client and in provider validation alike
C5_TimeoutOutcome ==
    (pc = "done" /\ FiredInFlight) =>
        CASE call.kind = "provider" ->
                 outcome.kind = "raised" /\ Mentions(outcome.exc.msg, TimeoutText)
          [] call.kind = "tool" ->
                 OneFailure("ValueError", <<"Failed to connect to Milvus: ", TimeoutText>>)
          [] OTHER ->
                 outcome = Raised(Exc("TimeoutError", <<TimeoutText>>))

\* C6: connection establishment resolves the host of the coerced URI and hands
\* the engine-client constructor a URI that starts with an accepted scheme, in
\* the facade as in provider validation
C6_ConstructorUriNormalized ==
    /\ \A i \in EventIndexes({"MilvusClient"}) :
          \/ StartsWith(events[i].arg, HTTPS)
          \/ StartsWith(events[i].arg, HTTP)
          \/ StartsWith(events[i].arg, TCP)
          \/ StartsWith(events[i].arg, UNIX)
    /\ \A i \in EventIndexes({"gethostbyname"}) :
          events[i].arg = UrlHostname(NormalizeUri(credentials.uri))

HasAcceptedPrefix(u) ==
    \E p \in {HTTPS, HTTP, TCP, UNIX} : Len(u) >= Len(p) /\ SubSeq(u, 1, Len(p)) = p

\* C7: normalizing a normalized URI changes nothing, and a URI that starts with
\* http://, https://, tcp:// or unix:// is returned as it is
C7_NormalizeIdempotent ==
    /\ (pc = "normalized" /\ HasAcceptedPrefix(credentials.uri)) =>
          outcome.value = credentials.uri
    /\ pc = "renormalized" => outcome.value = call.args.uri

C7_Witness ==
    /\ pc = "renormalized"
    /\ ~HasAcceptedPrefix(credentials.uri)
    /\ outcome.value = HTTPS \o credentials.uri \o PORT443

\* C8: every search sent to the engine comes after a has_collection of the
\* same call that returned True for the collection searched
C8_ExistenceCheckedBeforeSearch ==
    \A i \in EventIndexes({"search", "http_search"}) :
        \E j \in 1..(i - 1) : events[j] = HasCollEv(events[i].arg.collection_name, "True")

CreateInvocation == call.kind = "tool" /\ call.op = "create"

\* C9: a create invocation issues create_collection at most once, and only
\* after has_collection returned False in it; when has_collection returned True
\* it issues none and ends with one failure saying "already exists"
C9_CreateNeverUpserts ==
    CreateInvocation =>
        /\ Cardinality(EventIndexes({"create_collection"})) <= 1
        /\ \A i \in EventIndexes({"create_collection"}) :
              /\ events[i].arg.collection_name = call.args.collection_name
              /\ \E j \in 1..(i - 1) : events[j] = HasCollEv(call.args.collection_name, "False")
        /\ (\E j \in 1..Len(events) : events[j] = HasCollEv(call.args.collection_name, "True")) =>
              /\ ~Happened({"create_collection"})
              /\ pc = "done"
              /\ Len(responses) = 1
              /\ ~responses[1].success
              /\ Mentions(responses[1].error, "' already exists")

C9_Witness ==
    /\ CreateInvocation
    /\ pc = "done"
    /\ \E j \in 1..Len(events) : events[j] = HasCollEv(call.args.collection_name, "True")
    /\ ~responses[1].success

Bm25WithText ==
    /\ call.kind = "facade"
    /\ call.op = "create_collection_with_schema"
    /\ pc = "done"
    /\ Happened({"create_schema"})
    /\ "enable_bm25" \in DOMAIN call.args
    /\ call.args.enable_bm25
    /\ "text_field" \in DOMAIN call.args
    /\ DOMAIN call.args.text_field # {}

IsAddField(e) == e.op = "add_field"
IsAddFunction(e) == e.op = "add_function"

\* C10: with enable_bm25 true, a text field and a vector field,
\* create_collection_with_schema adds the four fields id, text, vector,
\* sparse_vector in this order with their types and options, adds one BM25
\* function from the text field to sparse_vector, and then issues one
\* create_collection, its last call
C10_Bm25SchemaFields ==
    Bm25WithText =>
        LET added == SelectSeq(events, IsAddField)
            functions == SelectSeq(events, IsAddFunction)
            text == call.args.text_field
            vector == call.args.vector_field
        IN  /\ Len(added) = 4
            /\ added[1].arg = [name |-> <<"id">>, dtype |-> "INT64", is_primary |-> TRUE,
                               auto_id |-> TRUE, max_length |-> 0,
                               enable_analyzer |-> FALSE, dim |-> 0]
            /\ added[2].arg = [name |-> text.name, dtype |-> "VARCHAR", is_primary |-> FALSE,
                               auto_id |-> FALSE, max_length |-> text.max_length,
                               enable_analyzer |-> TRUE, dim |-> 0]
            /\ added[3].arg = [name |-> vector.name, dtype |-> "FLOAT_VECTOR",
                               is_primary |-> FALSE, auto_id |-> FALSE, max_length |-> 0,
                               enable_analyzer |-> FALSE, dim |-> vector.dim]
            /\ added[4].arg = [name |-> <<"sparse_vector">>, dtype |-> "SPARSE_FLOAT_VECTOR",
                               is_primary |-> FALSE, auto_id |-> FALSE, max_length |-> 0,
                               enable_analyzer |-> FALSE, dim |-> 0]
            /\ Len(functions) = 1
            /\ functions[1].arg.function_type = "BM25"
            /\ functions[1].arg.input_field_names = <<text.name>>
            /\ functions[1].arg.output_field_names = <<<<"sparse_vector">>>>
            /\ Cardinality(EventIndexes({"create_collection"})) = 1
            /\ events[Len(events)].op = "create_collection"
            /\ \A i \in EventIndexes({"add_field", "add_function"}) : i < Len(events)

C10_Witness ==
    /\ Bm25WithText
    /\ outcome.kind = "returned"
    /\ call.args.text_field.max_length = 5000
    /\ call.args.vector_field.dim = 1536

Bm25WithoutText ==
    /\ call.kind = "facade"
    /\ call.op = "create_collection_with_schema"
    /\ "enable_bm25" \in DOMAIN call.args
    /\ call.args.enable_bm25
    /\ ("text_field" \notin DOMAIN call.args \/ DOMAIN call.args.text_field = {})

\* C11: create_collection_with_schema with enable_bm25 true and no text field
\* adds no sparse_vector field, adds no index on sparse_vector and issues no
\* create_collection
C11_Bm25WithoutTextRejected ==
    Bm25WithoutText =>
        /\ \A i \in EventIndexes({"add_field"}) : events[i].arg.name # <<"sparse_vector">>
        /\ \A i \in EventIndexes({"add_index"}) : events[i].arg.field_name # <<"sparse_vector">>
        /\ ~Happened({"create_collection"})

WellFormedName(s) ==
    /\ Len(s) >= 1
    /\ Len(s) <= 255
    /\ s[1] \in Letters \cup {"_"}
    /\ \A i \in 2..Len(s) : s[i] \in Letters \cup Digits \cup {"_"}

\* C12: _validate_collection_name returns true exactly for the strings of 1 to
\* 255 characters that start with a letter or underscore and go on with
\* letters, digits and underscores only, and false for every other string and
\* for every value that is no string
C12_NameValidatorExact ==
    (pc = "validated" /\ call.op = "_validate_collection_name") =>
        LET x == call.args.collection_name
        IN  outcome.value = (x.type = "str" /\ WellFormedName(x.str))

\* C13: a create request whose collection name is malformed ends with one
\* failure and has entered no _get_milvus_client and issued no has_collection
\* and no create_collection
C13_MalformedNameRejectedLocally ==
    (CreateInvocation /\ ~IsMissing(call.args, "collection_name")
        /\ ~WellFormedName(call.args.collection_name)) =>
        /\ pc = "done"
        /\ events = <<>>
        /\ Len(responses) = 1
        /\ ~responses[1].success

\* a positive integer not greater than 32768, given as a number or in digits
DimensionInRange(x) ==
    \/ x.t = "int" /\ x.n >= 1 /\ x.n <= 32768
    \/ x.t = "str" /\ IsDigits(x.s) /\ ToInt(x.s) >= 1 /\ ToInt(x.s) <= 32768

\* C14: a create request with a collection name ends with one failure and no
\* event at all unless its dimension is a positive integer not greater than
\* 32768, and every schema it sends carries the dimension it was given
C14_DimensionValidated ==
    (CreateInvocation /\ ~IsMissing(call.args, "collection_name")) =>
        IF "dimension" \in DOMAIN call.args /\ DimensionInRange(call.args.dimension)
        THEN \A i \in EventIndexes({"add_field"}) :
                 events[i].arg.dtype = "FLOAT_VECTOR" =>
                     events[i].arg.dim = (IF call.args.dimension.t = "int"
                                          THEN call.args.dimension.n
                                          ELSE ToInt(call.args.dimension.s))
        ELSE /\ pc = "done"
             /\ events = <<>>
             /\ Len(responses) = 1
             /\ ~responses[1].success

\* the text holds one of the keywords, whatever the case of its letters
Holds(text, keywords) ==
    \E k \in keywords : \E i \in 1..Len(text) :
        /\ i + Len(k) - 1 <= Len(text)
        /\ \A j \in 1..Len(k) : LowerAscii(text[i + j - 1]) = k[j]

\* the reference classifier: the categories in their priority, each with its keywords
ReferenceCategory(text) ==
    CASE Holds(text, {<<"p", "e", "r", "m", "i", "s", "s", "i", "o", "n", " ", "d", "e", "n", "i", "e", "d">>}) -> "PermissionError"
      [] Holds(text, {<<"h", "a", "n", "d", "s", "h", "a", "k", "e", " ", "f", "a", "i", "l", "e", "d">>, <<"i", "n", "v", "a", "l", "i", "d", " ", "k", "e", "y">>}) -> "AuthenticationError"
      [] Holds(text, {<<"c", "o", "n", "n", "e", "c", "t", "i", "o", "n">>, <<"t", "i", "m", "e", "o", "u", "t">>}) -> "ConnectionError"
      [] Holds(text, {<<"n", "o", "t", " ", "f", "o", "u", "n", "d">>, <<"d", "o", "e", "s", " ", "n", "o", "t", " ", "e", "x", "i", "s", "t">>}) -> "ResourceNotFoundError"
      [] OTHER -> "Unknown"

EndsWith(s, t) == Len(s) >= Len(t) /\ SubSeq(s, Len(s) - Len(t) + 1, Len(s)) = t

\* C17: _create_error_response gives the category of the reference classifier -
\* the first category, in the fixed priority, one of whose keywords the text
\* holds in any case - so the category depends on the text alone; an
\* unrecognized error keeps its own type and its text, verbatim, at the end of
\* the error field
C17_ClassifierMatchesReference ==
    (pc = "classified" /\ call.op = "_create_error_response") =>
        LET e == call.args.error
            category == ReferenceCategory(e.text)
        IN  /\ ~outcome.value.success
            /\ outcome.value.operation = call.args.operation
            /\ IF category = "Unknown"
               THEN /\ outcome.value.error_type = e.type
                    /\ EndsWith(outcome.value.error, e.text)
               ELSE outcome.value.error_type = category

C17_Witness ==
    /\ pc = "classified"
    /\ call.op = "_create_error_response"
    /\ Holds(call.args.error.text, {<<"d", "o", "e", "s", " ", "n", "o", "t", " ", "e", "x", "i", "s", "t">>})
    /\ Holds(call.args.error.text, {<<"t", "i", "m", "e", "o", "u", "t">>})
    /\ outcome.value.error_type = "ConnectionError"

\* C16: a failure a tool reports is classified: one whose text says
\* "does not exist" carries the error type ResourceNotFoundError
C16_FailuresClassified ==
    \A i \in 1..Len(responses) :
        (call.kind = "tool" /\ ~responses[i].success
            /\ Mentions(responses[i].error, "' does not exist")) =>
            responses[i].error_type = "ResourceNotFoundError"

RECURSIVE PlainData(_), PlainItems(_)
\* scalars, lists and mappings of plain data
PlainData(x) ==
    \/ x.tag = "scalar"
    \/ x.tag = "list" /\ PlainItems(x.items)
    \/ x.tag = "dict" /\ PlainItems([i \in 1..Len(x.items) |-> x.items[i].value])

PlainItems(items) == items = <<>> \/ (PlainData(Head(items)) /\ PlainItems(Tail(items)))

\* C18: the conversion of a description that is a mapping of plain values is a
\* mapping with the same keys in which every value is the converted value;
\* lists of plain data stay lists and scalars stay as they are
C18_ConversionPreservesStructure ==
    (pc = "converted" /\ PlainData(call.args.raw_description)) =>
        outcome.value = call.args.raw_description

\* C15: a tool invocation that has ended has yielded exactly one message, a
\* success response or a failure response with its error and error type; an
\* invocation under way has yielded none
C15_ExactlyOneMessage ==
    call.kind = "tool" =>
        /\ pc = "done" => Len(responses) = 1
        /\ pc # "done" => responses = <<>>
        /\ \A i \in 1..Len(responses) :
              IF responses[i].success
              THEN responses[i].error = <<>> /\ responses[i].error_type = ""
              ELSE responses[i].error # <<>> /\ responses[i].error_type # ""

C15_Witness ==
    /\ call.kind = "tool"
    /\ call.op = "drop"
    /\ pc = "done"
    /\ Happened({"drop_collection"})
    /\ Len(responses) = 1
    /\ ~responses[1].success

\* C19: a query invocation that found its collection sends one query to the
\* engine with the collection name and the filter and, unless the engine
\* fails, ends with one success response whose result_count is the number of
\* its query_results
C19_QueryForwarded ==
    (call.kind = "tool" /\ call.op = "query" /\ pc = "done"
        /\ \E j \in 1..Len(events) : events[j] = HasCollEv(call.args.collection_name, "True")) =>
        /\ Cardinality(EventIndexes({"query"})) = 1
        /\ \A i \in EventIndexes({"query"}) :
              events[i].arg.collection_name = call.args.collection_name
        /\ Len(responses) = 1
        /\ responses[1].success =>
              responses[1].payload.result_count = Len(responses[1].payload.query_results)

TextSearchAnswered ==
    /\ call.kind = "tool"
    /\ call.op = "text_search"
    /\ pc = "done"
    /\ Happened({"search_results"})

\* the hit's similarity is at least the threshold, both in hundredths: the raw
\* score, or 1 / (1 + score) under L2
SimilarEnough(hit, metric, threshold) ==
    IF metric = "L2" THEN 100 * 100 >= threshold * (100 + hit.score)
    ELSE hit.score >= threshold

\* C20: with min_similarity the text search tool returns exactly the hits whose
\* similarity is at least min_similarity, in the engine's order; without it,
\* all hits in the engine's order
C20_MinSimilarityFilter ==
    TextSearchAnswered =>
        LET hits == events[CHOOSE i \in EventIndexes({"search_results"}) : TRUE].arg
            results == responses[1].payload.results
            metric == IF "metric_type" \in DOMAIN call.args THEN call.args.metric_type
                      ELSE "COSINE"
            kept == IF "min_similarity" \in DOMAIN call.args
                    THEN {i \in 1..Len(hits) :
                             SimilarEnough(hits[i], metric, call.args.min_similarity)}
                    ELSE 1..Len(hits)
            Nth(k) == CHOOSE i \in kept : Cardinality({j \in kept : j < i}) = k - 1
        IN  /\ Len(responses) = 1
            /\ responses[1].success
            /\ Len(results) = Cardinality(kept)
            /\ responses[1].payload.total_results = Cardinality(kept)
            /\ \A k \in 1..Len(results) :
                  /\ results[k].id = hits[Nth(k)].id
                  /\ results[k].score = hits[Nth(k)].score
                  /\ results[k].entity = hits[Nth(k)].entity

C20_Witness ==
    /\ TextSearchAnswered
    /\ "min_similarity" \in DOMAIN call.args
    /\ call.args.min_similarity = 60
    /\ "metric_type" \in DOMAIN call.args
    /\ call.args.metric_type = "L2"
    /\ Len(events[Len(events)].arg) = 3
    /\ Len(responses[1].payload.results) = 1
    /\ responses[1].payload.results[1].id = 2

HybridSearchDone ==
    /\ call.kind = "facade"
    /\ call.op = "hybrid_search"
    /\ pc = "done"
    /\ Happened({"search"})

\* C21: a hybrid_search that reached the engine has sent it, besides the dense
\* search on the vector field with the given vector, a sparse search on
\* sparse_vector with the given text
C21_HybridSearchRunsBothBranches ==
    HybridSearchDone =>
        /\ \E i \in EventIndexes({"search"}) :
              events[i].arg.anns_field = <<"vector">> /\ events[i].arg.data = "vector"
        /\ \E i \in EventIndexes({"search"}) :
              events[i].arg.anns_field = <<"sparse_vector">> /\ events[i].arg.data = "text"

WrapperConstructed == call.kind = "facade" /\ call.op = "__init__" /\ pc = "done"

\* C22: when MilvusClientWrapper(credentials) has returned, the engine client
\* has been constructed, once, with the credentials' URI, and the wrapper holds
\* it; with an empty or absent URI the constructor has raised instead
C22_ConstructorConnects ==
    WrapperConstructed =>
        IF IsMissing(credentials, "uri")
        THEN outcome.kind = "raised"
        ELSE (FirstMissing = "none" /\ outcome.kind = "returned") =>
                /\ Cardinality(EventIndexes({"MilvusClient"})) = 1
                /\ \A i \in EventIndexes({"MilvusClient"}) : events[i].arg = credentials.uri
                /\ client = "connected"

ProviderFailed == call.kind = "provider" /\ pc = "done" /\ outcome.kind = "raised"

\* the pieces of error text that hold one of the words, in lower case
Saying(words) ==
    (IF words \cap {"authentication"} # {}
     THEN {"authentication failed", "connection rejected: authentication required"} ELSE {})
    \cup (IF words \cap {"connection"} # {}
          THEN {"Fail connecting to server, connection refused",
                "connection rejected: authentication required"} ELSE {})

Says(msg, words) == \E i \in 1..Len(msg) : msg[i] \in Saying(words)

\* C23: a failed provider validation raises
\* ToolProviderCredentialValidationError; when the preflight or the handshake
\* failed, its message is chosen by the text of the error that was caught:
\* the authentication message if it says "authentication" or "unauthorized",
\* else the cannot-connect message if it says "connection" or "timeout", else
\* "Milvus connection failed: " followed by that text
C23_ProviderErrorMessages ==
    ProviderFailed =>
        /\ outcome.exc.type = "ToolProviderCredentialValidationError"
        /\ Happened({"gethostbyname"}) =>
              LET raw == outcome.value.msg
              IN  /\ outcome.exc.msg =
                        IF Says(raw, {"authentication", "unauthorized"})
                        THEN <<"Authentication failed. Please check username and password.">>
                        ELSE IF Says(raw, {"connection", "timeout"})
                        THEN <<"Cannot connect to Milvus server. Please check URI and network connectivity.">>
                        ELSE <<"Milvus connection failed: ">> \o raw
                  /\ ~Happened({"socket"}) => raw[1] = "Cannot resolve hostname "
                  /\ (Happened({"socket"}) /\ ~Happened({"MilvusClient"})) =>
                        raw[1] = "Cannot connect to "

C23_Witness ==
    /\ ProviderFailed
    /\ Happened({"MilvusClient"})
    /\ outcome.value.msg = <<"connection rejected: authentication required">>
    /\ outcome.exc.msg = <<"Authentication failed. Please check username and password.">>

\* the text of the error the current call ended with, if it ended with one
FailureText ==
    IF call.kind = "tool"
    THEN (IF responses # <<>> /\ ~responses[1].success THEN responses[1].error ELSE <<>>)
    ELSE IF outcome.kind = "raised" THEN outcome.exc.msg
    ELSE <<>>

\* C24: in _create_client and in provider validation the engine client is
\* constructed only with all credentials given, after a DNS resolution and,
\* after that, a TCP probe to the resolved address that returned 0; a probe
\* follows a DNS resolution; and an attempt whose DNS resolution failed or
\* whose probe did not return 0 constructs no engine client
C24_PreflightBeforeHandshake ==
    /\ \A i \in EventIndexes({"MilvusClient"}) :
          /\ FirstMissing = "none"
          /\ \E j \in 1..(i - 1) : \E k \in (j + 1)..(i - 1) :
                /\ events[j].op = "gethostbyname"
                /\ events[k].op = "connect_ex"
                /\ events[k].arg.ip = <<"10.0.0.1">>
                /\ events[k].arg.result = "0"
    /\ \A k \in EventIndexes({"socket", "connect_ex"}) :
          \E j \in 1..(k - 1) : events[j].op = "gethostbyname"
    /\ \A k \in EventIndexes({"connect_ex"}) :
          events[k].arg.result # "0" => ~Happened({"MilvusClient"})
    /\ (pc = "done" /\ Mentions(FailureText, "Cannot resolve hostname ")) =>
          ~Happened({"socket", "connect_ex", "MilvusClient"})
    /\ \A i \in EventIndexes({"gethostbyname"}) :
          /\ FirstMissing = "none"
          /\ call.kind # "provider" => \E j \in 1..(i - 1) : events[j].op = "_create_client"

C24_Witness ==
    /\ pc = "done"
    /\ call.kind = "tool"
    /\ Happened({"_create_client"})
    /\ \E k \in EventIndexes({"connect_ex"}) : events[k].arg.result = "111"
    /\ ~Happened({"MilvusClient"})
    /\ Mentions(FailureText, "Cannot connect to ")

\* C25: when a connection attempt has ended, every probe socket it opened has
\* been closed, whether connect_ex returned 0, returned an error code or raised
C25_ProbeSocketClosed ==
    pc = "done" =>
        /\ ~sockOpen
        /\ \A i \in EventIndexes({"socket"}) :
              \E j \in (i + 1)..Len(events) : events[j].op = "close"

CreateSteps == {"create_client", "dns", "tcp", "handshake", "hs_returned", "hs_raised",
                "hs_timeout"}

\* a wrapper is being constructed: by a direct caller, or by the with block of
\* a tool
NewWrapper == call.kind = "tool" \/ (call.kind = "facade" /\ call.op = "__init__")

C27_ConversionTerminates ==
    (pc = "graph_converted" /\ call.op = "convert_to_serializable") =>
        outcome.kind = "returned"

ToolFailedInWith ==
    /\ call.kind = "tool"
    /\ pc = "done"
    /\ Happened({"_get_milvus_client"})
    /\ Len(responses) = 1
    /\ ~responses[1].success

LastHasCollection(result) ==
    /\ Happened({"has_collection"})
    /\ events[Len(events)].op = "has_collection"
    /\ events[Len(events)].arg.result = result

\* C28: a tool failure that arose inside "with _get_milvus_client(...)" - a
\* missing credential, a failed connection step, a collection that does not
\* exist, an engine error - is reported as a ValueError whose text is "Failed
\* to connect to Milvus: " followed by the original text, whatever the type of
\* the original exception
C28_CtxWrapsEveryException ==
    ToolFailedInWith =>
        /\ responses[1].error_type = "ValueError"
        /\ responses[1].error[1] = "Failed to connect to Milvus: "
        /\ Len(responses[1].error) > 1
        /\ (LastHasCollection("False") /\ call.op # "create") =>
              responses[1].error =
                  <<"Failed to connect to Milvus: ", "Collection '">>
                  \o call.args.collection_name \o <<"' does not exist">>
        /\ LastHasCollection("raised") =>
              responses[1].error =
                  <<"Failed to connect to Milvus: ",
                    "Fail connecting to server, connection refused">>
        /\ (\E k \in EventIndexes({"connect_ex"}) : events[k].arg.result = "111") =>
              \E port \in {<<"1">>, <<"8", "0">>, <<"4", "4", "3">>} :
                  responses[1].error =
                      <<"Failed to connect to Milvus: ", "Cannot connect to ">>
                      \o UrlHostname(credentials.uri) \o <<":">> \o port
                      \o <<": ", "Cannot connect to ", "10.0.0.1", ":">> \o port

C28_Witness ==
    /\ ToolFailedInWith
    /\ call.op = "drop"
    /\ LastHasCollection("raised")
    /\ responses[1].error_type = "ValueError"
    /\ responses[1].error = <<"Failed to connect to Milvus: ",
                              "Fail connecting to server, connection refused">>

ProbeSucceeded ==
    \E k \in EventIndexes({"connect_ex"}) : events[k].arg.result = "0"

PreflightFailed ==
    /\ pc = "done"
    /\ Happened({"gethostbyname"})
    /\ ~ProbeSucceeded

\* C29: once a connection attempt has started its preflight, the process-wide
\* socket default timeout is 3 seconds until the TCP probe has returned 0, and
\* None from then on; an attempt that ended with a DNS or TCP failure leaves it
\* at 3 seconds
C29_DefaultTimeoutLeftAtThree ==
    /\ Happened({"gethostbyname"}) =>
           defaultTimeout = (IF ProbeSucceeded THEN NoTimeout ELSE PreflightSeconds)
    /\ PreflightFailed =>
           /\ defaultTimeout = PreflightSeconds
           /\ defaultTimeout # NoTimeout
           /\ outcome.kind = "raised" \/ (Len(responses) = 1 /\ ~responses[1].success)

C29_Witness ==
    /\ PreflightFailed
    /\ call.kind = "facade"
    /\ \E k \in EventIndexes({"connect_ex"}) : events[k].arg.result = "111"
    /\ outcome.kind = "raised"
    /\ defaultTimeout = PreflightSeconds

RetryAttempts == EventIndexes({"run"})

Interrupted == \E k \in 1..Len(events) : events[k].arg = "KeyboardInterrupt"

====
